---- MODULE Spec2Model ----
(***************************************************************************)
(* A model of the map copilot's request cache (src/lib/cache.ts), of the   *)
(* /api/map-agent route handler that uses it (src/unnamed/part_007) and of *)
(* the nearby-search tool (src/unnamed/part_012 with google-api.ts,        *)
(* gtel-api.ts and the geo helpers of src/unnamed/part_011).               *)
(***************************************************************************)
EXTENDS Integers, Sequences, FiniteSets, TLC

\* ---------------------------------------------------------------- bounds

\* Number of distinct cache keys (sha256 digests of distinct payloads).
NumKeys == 3
\* The clock (Date.now()) runs from 0 to MaxTime.
MaxTime == 3
\* A positive MAP_AGENT_CACHE_TTL_MS, scaled down to clock ticks.
PositiveTtl == 2
\* MAP_AGENT_CACHE_MAX_ENTRIES, scaled down.
CACHE_MAX_ENTRIES == 1

\* Number of POST /api/map-agent requests in a run.
NumRequests == 3
\* Number of distinct cache keys the requests carry.
NumRequestKeys == 2

Keys == 1..NumKeys
RequestKeys == 1..NumRequestKeys
Requests == 1..NumRequests
\* Payload objects handed to the cache API directly (AgentRoutePayload).
Values == {"p1", "p2"}

\* An optional value: <<>> is null/undefined, <<v>> is the value v.
None == <<>>
Some(v) == <<v>>

\* A JavaScript value passed where a number is expected: absent (undefined),
\* NaN, an infinity, a string, or a finite number given in hundredths
\* (x = 49950 is 499.5).
Absent == [kind |-> "absent", x |-> 0]
NaN == [kind |-> "nan", x |-> 0]
Infinite == [kind |-> "infinity", x |-> 0]
Text == [kind |-> "string", x |-> 0]
Num(x) == [kind |-> "number", x |-> x]
isFiniteNumber(n) == n.kind = "number"

VARIABLES
  CACHE_ENABLED,      \* process.env.MAP_AGENT_CACHE_ENABLED !== 'false'
  CACHE_TTL_MS,       \* parseNumberEnv(MAP_AGENT_CACHE_TTL_MS, ...)
  RESPONSE_CACHE,     \* Map<string, CacheEntry>, in insertion order
  INFLIGHT_REQUESTS,  \* Map<string, Promise>: key -> call id, 0 when absent
  now,                \* Date.now()
  lastCall,           \* the last direct call of the cache API and its outcome
  lastStore,          \* the most recent setCachedResponse call
  calls,              \* the upstream LLM calls issued (completionPromise each)
  requests,           \* the POST handlers: position, key, promise awaited
  microtasks,         \* promise reaction jobs queued, in FIFO order
  keyLog,             \* the last request bodies keyed by POST, with their keys
  mapCenter,          \* map.getCenter(), a position on the meridian
  lastNearbySearchContext, \* mapState.lastNearbySearchContext
  layers,             \* the layer store (directions, nearbyBuffer, boundary)
  markers,            \* the marker store
  tool,               \* the executeTool call in progress, if any
  toolResult,         \* what executeTool returned to its caller
  previous,           \* the tool call completed before the present one
  decoder,            \* the decodeGooglePolyline call in progress, if any
  buffer              \* the buildBufferCoordinates call in progress, if any

cacheVars == <<CACHE_ENABLED, CACHE_TTL_MS, RESPONSE_CACHE, now>>
clientVars == <<mapCenter, lastNearbySearchContext, layers, markers, tool,
                toolResult, previous, decoder, buffer>>

\* ------------------------------------------------------ src/lib/cache.ts

cachingOff == ~CACHE_ENABLED \/ CACHE_TTL_MS <= 0

\* Index of the entry stored under key k, 0 when the Map has none.
indexOfKey(cache, k) ==
  IF \E i \in 1..Len(cache) : cache[i].key = k
  THEN CHOOSE i \in 1..Len(cache) : cache[i].key = k
  ELSE 0

\* Position of entry i in Array.from(entries).sort((a, b) => a.createdAt -
\* b.createdAt): a stable sort, so ties keep the Map's insertion order.
ageRank(cache, i) ==
  Cardinality({j \in 1..Len(cache) :
      \/ cache[j].createdAt < cache[i].createdAt
      \/ (cache[j].createdAt = cache[i].createdAt /\ j < i)})

\* Keep the entries of cache whose index satisfies keep, in order.
RECURSIVE keepIndices(_, _, _)
keepIndices(cache, keepSet, i) ==
  IF i > Len(cache) THEN <<>>
  ELSE (IF i \in keepSet THEN <<cache[i]>> ELSE <<>>)
       \o keepIndices(cache, keepSet, i + 1)

\* A variant that keeps an entry at the instant it expires (< for <=).
dropExpiredLate(cache, t) ==
  keepIndices(cache, {i \in 1..Len(cache) : ~(cache[i].expiresAt < t)}, 1)

dropExpired(cache, t) ==
  keepIndices(cache, {i \in 1..Len(cache) : ~(cache[i].expiresAt <= t)}, 1)

\* A variant that evicts the newest entries instead of the oldest.
evictNewest(live) ==
  IF Len(live) <= CACHE_MAX_ENTRIES THEN live
  ELSE keepIndices(live,
         {i \in 1..Len(live) : ageRank(live, i) < CACHE_MAX_ENTRIES}, 1)

evictOldest(live) ==
  IF Len(live) <= CACHE_MAX_ENTRIES THEN live
  ELSE LET removeCount == Len(live) - CACHE_MAX_ENTRIES
       IN keepIndices(live,
            {i \in 1..Len(live) : ageRank(live, i) >= removeCount}, 1)

pruneCache(cache, t) == evictOldest(dropExpired(cache, t))

\* A variant that still serves an entry at the instant it expires (< for <=).
getCachedResponseLate(cache, k, t) ==
  LET i == IF \E j \in 1..Len(cache) : cache[j].key = k
           THEN CHOOSE j \in 1..Len(cache) : cache[j].key = k ELSE 0 IN
  IF ~CACHE_ENABLED \/ CACHE_TTL_MS <= 0 THEN [ret |-> None, cache |-> cache]
  ELSE IF i = 0 THEN [ret |-> None, cache |-> cache]
  ELSE IF cache[i].expiresAt < t
       THEN [ret |-> None,
             cache |-> SelectSeq(cache, LAMBDA e : e.key # k)]
  ELSE [ret |-> Some(cache[i].value), cache |-> cache]

\* getCachedResponse: the value returned and the Map afterwards.
getCachedResponse(cache, k, t) ==
  LET i == indexOfKey(cache, k) IN
  IF cachingOff THEN [ret |-> None, cache |-> cache]
  ELSE IF i = 0 THEN [ret |-> None, cache |-> cache]
  ELSE IF cache[i].expiresAt <= t
       THEN [ret |-> None,
             cache |-> keepIndices(cache, (1..Len(cache)) \ {i}, 1)]
  ELSE [ret |-> Some(cache[i].value), cache |-> cache]

\* Map.set: an existing key keeps its position, a new key goes last.
mapSet(cache, entry) ==
  LET i == indexOfKey(cache, entry.key) IN
  IF i = 0 THEN Append(cache, entry) ELSE [cache EXCEPT ![i] = entry]

\* A variant whose entries expire at once (the TTL is not added).
newEntryNoTtl(k, v, t) ==
  [key |-> k, value |-> v, createdAt |-> t, expiresAt |-> t]

newEntry(k, v, t) ==
  [key |-> k, value |-> v, createdAt |-> t, expiresAt |-> t + CACHE_TTL_MS]

\* A variant that stores even when caching is turned off.
setCachedResponseAlways(cache, k, v, t) ==
  mapSet(pruneCache(cache, t), newEntry(k, v, t))

setCachedResponse(cache, k, v, t) ==
  IF cachingOff THEN cache
  ELSE mapSet(pruneCache(cache, t), newEntry(k, v, t))

\* mutant of getInflightRequest: the slot is never seen
getInflightRequestBlind(inflight, k) == 0

getInflightRequest(inflight, k) == inflight[k]

\* A variant that forgets the registration.
setInflightRequestDropped(inflight, k, c) == inflight

setInflightRequest(inflight, k, c) == [inflight EXCEPT ![k] = c]

\* A variant that leaves the slot in the Map.
deleteInflightRequestKept(inflight, k) == inflight

deleteInflightRequest(inflight, k) == [inflight EXCEPT ![k] = 0]

\* -------------------------------------------- direct use of the cache API

NoCall == [op |-> "none", key |-> 0, ret |-> None]
NoStore == [key |-> 0, value |-> "none", at |-> 0, evicted |-> <<>>,
            expired |-> <<>>]

\* INITIAL_STATE of the layer store and of the marker store.
LAYER_INITIAL_STATE ==
  [directions |-> None, nearbyBuffer |-> None, boundary |-> None]
MARKER_INITIAL_STATE ==
  [searchPlace |-> None, boundary |-> None, directionsStart |-> None,
   directionsEnd |-> None, nearbyPlaces |-> <<>>, userLocation |-> None,
   openPopupId |-> None]

NoCenter == [pos |-> 0, label |-> ""]
NoArgs == [keyword |-> None, type |-> None, radius |-> Absent,
           location |-> None, minRating |-> Absent, limit |-> Absent]
\* directoryQueries counts the directory requests the call has sent,
\* resolved tells how its wait for a location ended ("none" before) and
\* filtered is nearbySearch's `places` list before the limit is applied.
IdleTool == [pc |-> "idle", name |-> "", query |-> "", args |-> NoArgs,
             center |-> NoCenter, resolved |-> "none",
             directoryQueries |-> 0, filtered |-> <<>>]
NoResult == [success |-> FALSE, error |-> "", data |-> None]
NoPrevious == [name |-> "", success |-> FALSE, context |-> None]

\* The browser state when the page has loaded: the map at its initial
\* center, empty stores, no tool call made.
\* No decodeGooglePolyline call is running.
IdleDecoder ==
  [pc |-> "idle", encoded |-> <<>>, index |-> 0, shift |-> 0, result |-> {},
   lat |-> 0, lng |-> 0, coordinates |-> <<>>]

\* No buildBufferCoordinates call is running.
IdleBuffer ==
  [pc |-> "idle", center |-> "", radiusMeters |-> 0, i |-> 0,
   coordinates |-> <<>>]

InitClient ==
  /\ decoder = IdleDecoder
  /\ buffer = IdleBuffer
  /\ mapCenter = 0
  /\ lastNearbySearchContext = None
  /\ layers = LAYER_INITIAL_STATE
  /\ markers = MARKER_INITIAL_STATE
  /\ tool = IdleTool
  /\ toolResult = NoResult
  /\ previous = NoPrevious

InitConfig ==
  /\ CACHE_ENABLED \in BOOLEAN
  /\ CACHE_TTL_MS \in {PositiveTtl, 0, -1}
  \* one disabled configuration per cause, plus the enabled one
  /\ (~CACHE_ENABLED => CACHE_TTL_MS = PositiveTtl)

NoResponse == [status |-> 0, payload |-> 0, cached |-> FALSE,
               cacheSource |-> "none", error |-> "none"]
NewRequest == [pc |-> "new", key |-> 0, call |-> 0, joinedSettled |-> FALSE,
               resp |-> NoResponse]

Init ==
  /\ InitConfig
  /\ RESPONSE_CACHE = <<>>
  /\ INFLIGHT_REQUESTS = [k \in Keys |-> 0]
  /\ now = 0
  /\ lastCall = NoCall
  /\ lastStore = NoStore
  /\ calls = <<>>
  /\ requests = [r \in Requests |-> NewRequest]
  /\ microtasks = <<>>
  /\ keyLog = <<>>
  /\ InitClient

routeVars == <<calls, requests, microtasks, keyLog>>

Tick ==
  /\ now < MaxTime
  /\ now' = now + 1
  /\ UNCHANGED <<CACHE_ENABLED, CACHE_TTL_MS, RESPONSE_CACHE,
                 INFLIGHT_REQUESTS, lastCall, lastStore, routeVars, clientVars>>

CallGet(k) ==
  LET r == getCachedResponse(RESPONSE_CACHE, k, now) IN
  /\ RESPONSE_CACHE' = r.cache
  /\ lastCall' = [op |-> "get", key |-> k, ret |-> r.ret]
  /\ UNCHANGED <<CACHE_ENABLED, CACHE_TTL_MS, INFLIGHT_REQUESTS, now,
                 lastStore, routeVars, clientVars>>

\* expiredKeys of pruneCache (lines 49-52): the keys its first loop deletes.
expiredKeys(cache, t) ==
  LET gone == SelectSeq(cache, LAMBDA e : e.expiresAt <= t)
  IN [i \in 1..Len(gone) |-> gone[i].key]

\* The creation times of the entries that pruneCache's second loop (lines
\* 57-64) deletes from the Map at time t, in the Map's order.
evictedBy(cache, t) ==
  LET live == dropExpired(cache, t)
      left == pruneCache(cache, t)
      gone == SelectSeq(live, LAMBDA e :
                e \notin {left[n] : n \in 1..Len(left)})
  IN [i \in 1..Len(gone) |-> gone[i].createdAt]

CallSet(k, v) ==
  /\ RESPONSE_CACHE' = setCachedResponse(RESPONSE_CACHE, k, v, now)
  /\ lastCall' = [op |-> "set", key |-> k, ret |-> None]
  /\ lastStore' = [key |-> k, value |-> v, at |-> now,
                   evicted |-> IF cachingOff THEN <<>>
                               ELSE evictedBy(RESPONSE_CACHE, now),
                   expired |-> IF cachingOff THEN <<>>
                               ELSE expiredKeys(RESPONSE_CACHE, now)]
  /\ UNCHANGED <<CACHE_ENABLED, CACHE_TTL_MS, INFLIGHT_REQUESTS, now,
                 routeVars, clientVars>>

vars == <<CACHE_ENABLED, CACHE_TTL_MS, RESPONSE_CACHE, INFLIGHT_REQUESTS,
          now, lastCall, lastStore, calls, requests, microtasks, keyLog,
          mapCenter, lastNearbySearchContext, layers, markers, tool,
          toolResult, previous, decoder, buffer>>

NextCache ==
  \/ Tick
  \/ \E k \in Keys : CallGet(k)
  \/ \E k \in Keys, v \in Values : CallSet(k, v)

SpecCache == Init /\ [][NextCache]_vars

\* ------------------------------------- POST /api/map-agent (part_007)

\* What the upstream chat completion can do: return a completion with a
\* choice, return one without any choice, or fail with an API error.
UpstreamOutcomes == {"choice", "noChoice", "apiError"}

\* callLLM: the state its promise settles to for an upstream outcome. The
\* payload object it builds is fresh for every call; call c's is named c.
callLLM(c, outcome) ==
  IF outcome = "choice"
  THEN [state |-> "fulfilled", value |-> c, error |-> "none"]
  ELSE [state |-> "rejected", value |-> 0, error |-> outcome]

\* A variant of okResponse that tags every response as not cached.
okResponseUntagged(payload, cached, source) ==
  [status |-> 200, payload |-> payload, cached |-> FALSE,
   cacheSource |-> "none", error |-> "none"]

okResponse(payload, cached, source) ==
  [status |-> 200, payload |-> payload, cached |-> cached,
   cacheSource |-> source, error |-> "none"]

errorResponse(error) ==
  [status |-> 500, payload |-> 0, cached |-> FALSE, cacheSource |-> "none",
   error |-> error]

\* A variant that stores whatever the call settled to, failures included.
cacheAfterCompletionAlways(cache, k, call, t) ==
  setCachedResponse(cache, k, call.value, t)

\* Lines 260-267: setCachedResponse runs only when the await did not throw.
cacheAfterCompletion(cache, k, call, t) ==
  IF call.state = "fulfilled"
  THEN setCachedResponse(cache, k, call.value, t)
  ELSE cache

\* The handler of request r, from the resumption after `await
\* request.json()` to its next await or its response (lines 236-258). The
\* code before that await touches no shared state. It runs as a task of its
\* own, so no promise reaction job is pending when it starts. Requests are
\* numbered in the order their handlers reach this point.
HandleRequest(r, k) ==
  LET g == getCachedResponse(RESPONSE_CACHE, k, now)
      inflight == getInflightRequest(INFLIGHT_REQUESTS, k)
      c == Len(calls) + 1
  IN
  /\ microtasks = <<>>
  /\ requests[r].pc = "new"
  /\ \A q \in Requests : q < r => requests[q].pc # "new"
  /\ RESPONSE_CACHE' = g.cache
  /\ IF g.ret # None
     THEN /\ requests' = [requests EXCEPT ![r] =
                 [@ EXCEPT !.pc = "done", !.key = k,
                           !.resp = okResponse(g.ret[1], TRUE, "memory")]]
          /\ UNCHANGED <<calls, INFLIGHT_REQUESTS, microtasks>>
     ELSE IF inflight # 0
     THEN /\ requests' = [requests EXCEPT ![r] =
                 [@ EXCEPT !.pc = "awaitInflight", !.key = k,
                           !.call = inflight,
                           !.joinedSettled =
                              (calls[inflight].state # "pending")]]
          /\ calls' = [calls EXCEPT ![inflight].reactions = Append(@, r)]
          /\ microtasks' = IF calls[inflight].state # "pending"
                           THEN Append(microtasks, r) ELSE microtasks
          /\ UNCHANGED INFLIGHT_REQUESTS
     ELSE /\ calls' = Append(calls,
                 [key |-> k, state |-> "pending", value |-> 0,
                  error |-> "none", reactions |-> <<r>>])
          /\ INFLIGHT_REQUESTS' = setInflightRequest(INFLIGHT_REQUESTS, k, c)
          /\ requests' = [requests EXCEPT ![r] =
                 [@ EXCEPT !.pc = "awaitCompletion", !.key = k, !.call = c]]
          /\ UNCHANGED microtasks
  /\ UNCHANGED <<CACHE_ENABLED, CACHE_TTL_MS, now, lastCall, lastStore,
                 keyLog, clientVars>>

\* Why POST turns a request away before it builds a cache key: no
\* OPENROUTER_API_KEY in the environment, or a body without a messages array.
RejectReasons == {"noApiKey", "noMessages"}
rejection(reason) ==
  [errorResponse(reason) EXCEPT
     !.status = IF reason = "noMessages" THEN 400 ELSE 500]

\* POST returns at lines 220-225 or 229-234.
RejectRequest(r, reason) ==
  /\ microtasks = <<>>
  /\ requests[r].pc = "new"
  /\ \A q \in Requests : q < r => requests[q].pc # "new"
  /\ requests' = [requests EXCEPT ![r] =
        [@ EXCEPT !.pc = "done", !.resp = rejection(reason)]]
  /\ UNCHANGED <<cacheVars, INFLIGHT_REQUESTS, lastCall, lastStore, calls,
                 microtasks, keyLog, clientVars>>

\* The upstream call c completes and callLLM's promise settles; its
\* reactions are queued in the order the awaits were registered (the
\* holder's first).
UpstreamSettles(c, outcome) ==
  LET s == callLLM(c, outcome) IN
  /\ microtasks = <<>>
  /\ calls[c].state = "pending"
  /\ calls' = [calls EXCEPT ![c] =
        [@ EXCEPT !.state = s.state, !.value = s.value, !.error = s.error]]
  /\ microtasks' = calls[c].reactions
  /\ UNCHANGED <<CACHE_ENABLED, CACHE_TTL_MS, RESPONSE_CACHE,
                 INFLIGHT_REQUESTS, now, lastCall, lastStore, requests,
                 keyLog, clientVars>>

\* The holder resumes from `await completionPromise` (lines 260-281).
HolderResumes ==
  LET r == Head(microtasks)
      k == requests[r].key
      call == calls[requests[r].call]
  IN
  /\ microtasks # <<>>
  /\ requests[r].pc = "awaitCompletion"
  /\ INFLIGHT_REQUESTS' = deleteInflightRequest(INFLIGHT_REQUESTS, k)
  /\ RESPONSE_CACHE' = cacheAfterCompletion(RESPONSE_CACHE, k, call, now)
  /\ requests' = [requests EXCEPT ![r] =
        [@ EXCEPT !.pc = "done",
                  !.resp = IF call.state = "fulfilled"
                           THEN okResponse(call.value, FALSE, "none")
                           ELSE errorResponse(call.error)]]
  /\ microtasks' = Tail(microtasks)
  /\ UNCHANGED <<CACHE_ENABLED, CACHE_TTL_MS, now, lastCall, lastStore,
                 calls, keyLog, clientVars>>

\* A variant of sharedResponse in which a waiter answers 200 with an empty
\* payload when the call it awaited failed.
sharedResponseSwallowed(call) ==
  okResponse(IF call.state = "fulfilled" THEN call.value ELSE 0,
             TRUE, "inflight")

\* What a waiter answers once `await inflight` settles: the shared payload
\* tagged as cached, or, the await having thrown, the catch block's 500.
sharedResponse(call) ==
  IF call.state = "fulfilled"
  THEN okResponse(call.value, TRUE, "inflight")
  ELSE errorResponse(call.error)

\* A waiter resumes from `await inflight` (lines 251-252, 270-281).
WaiterResumes ==
  LET r == Head(microtasks)
      call == calls[requests[r].call]
  IN
  /\ microtasks # <<>>
  /\ requests[r].pc = "awaitInflight"
  /\ requests' = [requests EXCEPT ![r] =
        [@ EXCEPT !.pc = "done", !.resp = sharedResponse(call)]]
  /\ microtasks' = Tail(microtasks)
  /\ UNCHANGED <<CACHE_ENABLED, CACHE_TTL_MS, RESPONSE_CACHE,
                 INFLIGHT_REQUESTS, now, lastCall, lastStore, calls,
                 keyLog, clientVars>>

Next ==
  \/ Tick
  \/ \E r \in Requests, k \in RequestKeys : HandleRequest(r, k)
  \/ \E r \in Requests, reason \in RejectReasons : RejectRequest(r, reason)
  \/ \E c \in 1..Len(calls), o \in UpstreamOutcomes : UpstreamSettles(c, o)
  \/ HolderResumes
  \/ WaiterResumes

Spec == Init /\ [][Next]_vars

\* The route under the scheduling it runs with: every upstream call settles
\* in the end (the premise of the no-leak claim), and the event loop runs
\* every reaction job that is queued.
Fairness ==
  /\ \A c \in 1..NumRequests :
        WF_vars(c <= Len(calls)
                  /\ \E o \in UpstreamOutcomes : UpstreamSettles(c, o))
  /\ WF_vars(HolderResumes)
  /\ WF_vars(WaiterResumes)

\* The server runs with caching on, and the requests arrive within one
\* tick of the clock.
InitLive == Init /\ CACHE_ENABLED /\ CACHE_TTL_MS = PositiveTtl

NextLive ==
  \/ \E r \in Requests, k \in RequestKeys : HandleRequest(r, k)
  \/ \E c \in 1..Len(calls), o \in UpstreamOutcomes : UpstreamSettles(c, o)
  \/ HolderResumes
  \/ WaiterResumes

SpecLive == InitLive /\ [][NextLive]_vars /\ Fairness

\* ------------------------------------------- the cache key of a request

MaxMessages == 2

\* Incoming messages: a user message, the same with a tool_call_id (which
\* buildMessages drops), tool messages without id, with an empty id and
\* with an id, and an assistant message.
IncomingMessages ==
  { [role |-> "user", content |-> "a", tool_call_id |-> None],
    [role |-> "user", content |-> "a", tool_call_id |-> Some("t1")],
    [role |-> "tool", content |-> "a", tool_call_id |-> None],
    [role |-> "tool", content |-> "a", tool_call_id |-> Some("")],
    [role |-> "tool", content |-> "a", tool_call_id |-> Some("t1")],
    [role |-> "assistant", content |-> "b", tool_call_id |-> None] }

RequestBodies ==
  [responseOnly : BOOLEAN,
   messages : UNION { [1..n -> IncomingMessages] : n \in 0..MaxMessages }]

OPENROUTER_MODEL == "openai/gpt-4o-mini"

\* mutant of buildMessages: the system prompt is left out
buildMessagesNoPrompt(systemPrompt, incoming) ==
  [i \in 1..Len(incoming) |->
     IF incoming[i].role = "tool"
     THEN [role |-> "tool", content |-> incoming[i].content,
           tool_call_id |-> IF incoming[i].tool_call_id = None THEN ""
                            ELSE incoming[i].tool_call_id[1]]
     ELSE [role |-> incoming[i].role, content |-> incoming[i].content]]

\* buildMessages: the system prompt, then each incoming message reduced to
\* role and content, a tool message also keeping its tool_call_id || ''.
buildMessages(systemPrompt, incoming) ==
  <<[role |-> "system", content |-> systemPrompt]>> \o
  [i \in 1..Len(incoming) |->
     IF incoming[i].role = "tool"
     THEN [role |-> "tool", content |-> incoming[i].content,
           tool_call_id |-> IF incoming[i].tool_call_id = None THEN ""
                            ELSE incoming[i].tool_call_id[1]]
     ELSE [role |-> incoming[i].role, content |-> incoming[i].content]]

\* JSON.stringify of one message: its members in the order they were
\* written, as name/value pairs.
stringifyMessage(m) ==
  IF m.role = "tool"
  THEN <<"role", m.role, "content", m.content, "tool_call_id", m.tool_call_id>>
  ELSE <<"role", m.role, "content", m.content>>

\* JSON.stringify({ model, messages })
stringify(model, messages) ==
  <<"model", model, "messages",
    [i \in 1..Len(messages) |-> stringifyMessage(messages[i])]>>

\* createHash('sha256').update(payload).digest('hex'): the digest stands
\* for its payload, two payloads never sharing one.
sha256(payload) == <<"sha256", payload>>

buildCacheKey(messages) == sha256(stringify(OPENROUTER_MODEL, messages))

\* POST from the parsed body to the cache key (lines 236-241).
cacheKeyOf(body) ==
  LET systemPrompt == IF body.responseOnly THEN "RESPONSE_PROMPT"
                      ELSE "REQUEST_PROMPT"
  IN buildCacheKey(buildMessages(systemPrompt, body.messages))

\* A request arrives and POST computes its cache key; the log keeps the two
\* latest requests.
RequestKeyed(body) ==
  /\ keyLog' = (IF Len(keyLog) < 2 THEN keyLog ELSE Tail(keyLog))
                  \o <<[body |-> body, key |-> cacheKeyOf(body)]>>
  /\ UNCHANGED <<cacheVars, INFLIGHT_REQUESTS, lastCall, lastStore, calls,
                 requests, microtasks, clientVars>>

NextKey == \E body \in RequestBodies : RequestKeyed(body)

\* The server runs with one configuration.
InitKey == Init /\ CACHE_ENABLED /\ CACHE_TTL_MS = PositiveTtl

SpecKey == InitKey /\ [][NextKey]_vars

\* ------------------------------------------- geo helpers (part_011)

DEFAULT_NEARBY_RADIUS == 1000
MIN_NEARBY_RADIUS == 100
MAX_NEARBY_RADIUS == 50000
MAX_REQUESTED_NEARBY_RESULTS == 200

Min(a, b) == IF a < b THEN a ELSE b
Max(a, b) == IF a > b THEN a ELSE b
Abs(a) == IF a < 0 THEN -a ELSE a


\* Math.round of x hundredths: the nearest integer, halves upwards.
mathRound(x) == (x + 50) \div 100
\* Math.floor of x hundredths.
mathFloor(x) == x \div 100

\* A variant of normalizeNearbyRadius that truncates instead of rounding.
normalizeNearbyRadiusTruncating(radius) ==
  IF ~isFiniteNumber(radius) THEN DEFAULT_NEARBY_RADIUS
  ELSE Min(MAX_NEARBY_RADIUS, Max(MIN_NEARBY_RADIUS, mathFloor(radius.x)))

\* normalizeNearbyRadius: meters, an integer.
normalizeNearbyRadius(radius) ==
  IF ~isFiniteNumber(radius) THEN DEFAULT_NEARBY_RADIUS
  ELSE Min(MAX_NEARBY_RADIUS, Max(MIN_NEARBY_RADIUS, mathRound(radius.x)))

\* normalizeMinRating: null, or the rating in tenths of a star
\* (Math.round(bounded * 10) / 10).
normalizeMinRating(minRating) ==
  IF ~isFiniteNumber(minRating) THEN None
  ELSE LET bounded == Min(500, Max(0, minRating.x))
       IN Some(mathRound(bounded * 10))

\* haversineDistanceMeters, for points of one meridian: with dLng = 0 the
\* formula gives EARTH_RADIUS_M * |dLat|, the length of the arc between
\* them. A point is named by its position along the meridian, in meters.
haversineDistanceMeters(from, to) == Abs(to - from)

\* ------------------------------------ nearby search (part_012 and APIs)

\* Keywords and location texts, with what String.trim() makes of them.
Keywords == {"cafe", " Camera giao thong "}
trim(str) ==
  CASE str = "  " -> ""
    [] str = "   " -> ""
    [] str = " Camera giao thong " -> "Camera giao thong"
    [] OTHER -> str
\* normalizeLocationText: lower case, diacritics stripped, trimmed.
normalizeLocationText(str) ==
  CASE trim(str) = "Camera giao thong" -> "camera giao thong"
    [] OTHER -> trim(str)
\* CAMERA_KEYWORD_PATTERNS.some(p => normalized.includes(p))
includesCameraPattern(normalized) == normalized \in {"camera giao thong"}
\* CURRENT_LOCATION_PATTERNS.some(p => normalized.includes(p))
isCurrentLocationInput(str) ==
  normalizeLocationText(str) \in {"vi tri hien tai"}

PlaceTypes == {"cafe", "traffic_camera"}
LocationTexts == {"vi tri hien tai", "Cho Ben Thanh"}

\* isCameraNearbyRequest(keyword, type), both optional.
isCameraNearbyRequest(keyword, type) ==
  IF type = Some("traffic_camera") THEN TRUE
  ELSE IF type # None THEN FALSE
  ELSE IF keyword = None THEN FALSE
  ELSE includesCameraPattern(normalizeLocationText(keyword[1]))

\* normalizeNearbyLimit: null or a count in 1..200.
normalizeNearbyLimit(limit) ==
  IF ~isFiniteNumber(limit) THEN None
  ELSE IF mathFloor(limit.x) <= 0 THEN None
  ELSE Some(Min(MAX_REQUESTED_NEARBY_RESULTS, mathFloor(limit.x)))

\* The first n elements of a list (Array.prototype.slice(0, n)).
slice(list, n) == SubSeq(list, 1, Min(n, Len(list)))

\* A variant that puts an item before those at the same distance (an
\* unstable sort).
RECURSIVE insertByDistanceFirst(_, _)
insertByDistanceFirst(sorted, item) ==
  IF sorted = <<>> THEN <<item>>
  ELSE IF item.distanceMeters <= Head(sorted).distanceMeters
       THEN <<item>> \o sorted
  ELSE <<Head(sorted)>> \o insertByDistanceFirst(Tail(sorted), item)

\* Stable insertion of item into a list sorted by distanceMeters.
RECURSIVE insertByDistance(_, _)
insertByDistance(sorted, item) ==
  IF sorted = <<>> THEN <<item>>
  ELSE IF item.distanceMeters < Head(sorted).distanceMeters
       THEN <<item>> \o sorted
  ELSE <<Head(sorted)>> \o insertByDistance(Tail(sorted), item)

\* Array.prototype.sort((a, b) => a.distanceMeters - b.distanceMeters),
\* stable: items at equal distance keep their order.
RECURSIVE sortByDistance(_)
sortByDistance(list) ==
  IF list = <<>> THEN <<>>
  ELSE insertByDistance(sortByDistance(SubSeq(list, 1, Len(list) - 1)),
                        list[Len(list)])

\* What both directories' parsers keep of a returned item: items without
\* finite coordinates are dropped, a rating that is not a number is null,
\* and each kept item gets its distance from the search center.
parsePlaces(location, results) ==
  LET kept == SelectSeq(results, LAMBDA item : item.finite)
  IN [i \in 1..Len(kept) |->
        [pos |-> kept[i].pos,
         rating |-> IF kept[i].rated THEN Some(kept[i].rating) ELSE None,
         distanceMeters |-> haversineDistanceMeters(location, kept[i].pos)]]

\* mutant of inRadius: the distance filter lets everything through
inRadiusUnfiltered(places, radius) == sortByDistance(places)

\* .filter(p => p.distanceMeters <= radius).sort(by distanceMeters)
inRadius(places, radius) ==
  sortByDistance(SelectSeq(places, LAMBDA p : p.distanceMeters <= radius))

\* (place.rating ?? -1) >= minRating, ratings in tenths of a star
passesRating(place, minRating) ==
  IF minRating = None THEN TRUE
  ELSE (IF place.rating = None THEN -10 ELSE place.rating[1]) >= minRating[1]

fetchFailure(error) ==
  [ok |-> FALSE, error |-> error, radius |-> 0, minRating |-> None,
   rawCount |-> 0, filteredOutCount |-> 0, ratingFilteredOutCount |-> 0,
   places |-> <<>>]

\* mutant of fetchNearbyPlaces: whatever the directory answers is taken as
\* an empty result
fetchNearbyPlacesSwallowing(location, keyword, type, radiusArg, minRatingArg, data) ==
  [ok |-> TRUE, error |-> "", radius |-> normalizeNearbyRadius(radiusArg),
   minRating |-> normalizeMinRating(minRatingArg), rawCount |-> 0,
   filteredOutCount |-> 0, ratingFilteredOutCount |-> 0, places |-> <<>>]

\* A variant of fetchNearbyPlaces that counts what the rating filter
\* removed against the parsed list instead of the list within the radius.
fetchNearbyPlacesDoubleCount(location, keyword, type, radiusArg, minRatingArg, data) ==
  LET radius == normalizeNearbyRadius(radiusArg)
      minRating == normalizeMinRating(minRatingArg)
      parsedPlaces == parsePlaces(location, data.results)
      placesInRadius == inRadius(parsedPlaces, radius)
      places == SelectSeq(placesInRadius,
                          LAMBDA p : passesRating(p, minRating))
  IN [ok |-> TRUE, error |-> "", radius |-> radius, minRating |-> minRating,
      rawCount |-> Len(parsedPlaces),
      filteredOutCount |-> Len(parsedPlaces) - Len(placesInRadius),
      ratingFilteredOutCount |-> Len(parsedPlaces) - Len(places),
      places |-> places]

\* fetchNearbyPlaces (google-api.ts), given the directory's response.
fetchNearbyPlaces(location, keyword, type, radiusArg, minRatingArg, data) ==
  LET radius == normalizeNearbyRadius(radiusArg)
      minRating == normalizeMinRating(minRatingArg)
      parsedPlaces == parsePlaces(location, data.results)
      placesInRadius == inRadius(parsedPlaces, radius)
      places == sortByDistance(
                  SelectSeq(placesInRadius,
                            LAMBDA p : passesRating(p, minRating)))
  IN IF keyword = None /\ type = None THEN fetchFailure("noSearchTerm")
     ELSE IF data.status = "ZERO_RESULTS"
     THEN [ok |-> TRUE, error |-> "", radius |-> radius,
           minRating |-> minRating, rawCount |-> 0, filteredOutCount |-> 0,
           ratingFilteredOutCount |-> 0, places |-> <<>>]
     ELSE IF data.status # "OK" THEN fetchFailure("nearbySearchStatus")
     ELSE [ok |-> TRUE, error |-> "", radius |-> radius,
           minRating |-> minRating, rawCount |-> Len(parsedPlaces),
           filteredOutCount |-> Len(parsedPlaces) - Len(placesInRadius),
           ratingFilteredOutCount |-> Len(placesInRadius) - Len(places),
           places |-> places]

\* fetchNearbyCameras (gtel-api.ts), given the directory's response; the
\* caller (nearbySearch) maps every camera to a place with rating null and
\* leaves minRating and ratingFilteredOutCount at their initial null and 0.
fetchNearbyCameras(location, radiusArg, data) ==
  LET radius == normalizeNearbyRadius(radiusArg)
      parsed == parsePlaces(location, data.results)
      cameras == inRadius(parsed, radius)
  IN IF ~(data.status = "OK" \/ data.statusCode = 200)
     THEN fetchFailure("nearbyCameraStatus")
     ELSE [ok |-> TRUE, error |-> "", radius |-> radius,
           minRating |-> None, rawCount |-> Len(parsed),
           filteredOutCount |-> Len(parsed) - Len(cameras),
           ratingFilteredOutCount |-> 0,
           places |-> [i \in 1..Len(cameras) |->
                         [pos |-> cameras[i].pos, rating |-> None,
                          distanceMeters |-> cameras[i].distanceMeters]]]

\* ------------------------------------------ executeTool('nearbySearch')

MaxCandidates == 2

\* Items a directory can return: near and well rated, farther and unrated,
\* close and poorly rated, and one without coordinates.
Candidates ==
  { [pos |-> 500, finite |-> TRUE, rated |-> TRUE, rating |-> 45],
    [pos |-> 560, finite |-> TRUE, rated |-> FALSE, rating |-> 0],
    [pos |-> 160, finite |-> TRUE, rated |-> TRUE, rating |-> 39],
    [pos |-> 0, finite |-> FALSE, rated |-> FALSE, rating |-> 0] }

ListsUpTo(S, n) == UNION { [1..m -> S] : m \in 0..n }

\* The responses of a directory: a list of items, no result, an error; the
\* statusCode (read by the camera directory's client only) tells the same
\* as the status.
DirectoryResponses ==
  { [status |-> "OK", statusCode |-> 200, results |-> l] :
       l \in ListsUpTo(Candidates, MaxCandidates) }
  \cup { [status |-> "ZERO_RESULTS", statusCode |-> 200, results |-> <<>>],
         [status |-> "REQUEST_DENIED", statusCode |-> 403, results |-> <<>>] }

\* The arguments the LLM can put in a nearbySearch tool call.
RadiusArgs == {Absent, Num(50000), Num(9949)}
MinRatingArgs == {Absent, Num(396)}
LimitArgs == {Absent, Num(150)}
NearbyArgs ==
  [keyword : {None} \cup {Some(k) : k \in Keywords},
   type : {None} \cup {Some(t) : t \in PlaceTypes},
   radius : RadiusArgs,
   location : {None} \cup {Some(l) : l \in LocationTexts},
   minRating : MinRatingArgs,
   limit : LimitArgs]

\* typeof x === 'number' ? x : undefined
numberOrUndefined(n) ==
  IF n.kind \in {"number", "nan", "infinity"} THEN n ELSE Absent

\* mutant of effectiveKeyword: the keyword is taken as given, untrimmed
effectiveKeywordUntrimmed(args) ==
  IF args.keyword = None \/ args.keyword[1] = "" THEN None ELSE args.keyword

\* args.keyword?.trim() || null
effectiveKeyword(args) ==
  IF args.keyword = None \/ trim(args.keyword[1]) = "" THEN None
  ELSE Some(trim(args.keyword[1]))

\* mutant of needsSearchTerm: a call without keyword and type goes on
\* while the buffer of an earlier nearby search is still in the layer store
needsSearchTermUnlessBuffer(args) ==
  effectiveKeyword(args) = None /\ args.type = None
    /\ layers.nearbyBuffer = None

\* !effectiveKeyword && !effectiveType
needsSearchTerm(args) == effectiveKeyword(args) = None /\ args.type = None

\* Where the geolocation API and the place text search put the user and
\* the named place.
ResolveOutcomes ==
  { [ok |-> TRUE, pos |-> 60, error |-> ""],
    [ok |-> FALSE, pos |-> 0, error |-> "collaboratorError"] }

\* A variant of the layer store's clearAll that leaves the boundary layer.
clearAllLayersButBoundary(store) ==
  [LAYER_INITIAL_STATE EXCEPT !.boundary = store.boundary]

\* layerActions.clearAll(); markerActions.clearAll()
clearAllLayers(store) == LAYER_INITIAL_STATE
clearAllMarkers(store) == MARKER_INITIAL_STATE

\* What executeTool returns when the executor throws.
toolFailure(error) == [success |-> FALSE, error |-> error, data |-> None]

\* mutant of resolveNearbySearchCenter: when the lookup fails the current
\* map center is taken instead
resolveNearbySearchCenterFallback(location, outcome) ==
  [ok |-> TRUE, error |-> "",
   center |-> IF outcome.ok
              THEN [pos |-> outcome.pos, label |-> trim(location)]
              ELSE [pos |-> mapCenter, label |-> "tam ban do hien tai"]]

\* resolveNearbySearchCenter for a location text that is not blank, given
\* what the device position (for a current-location phrase) or the text
\* search answered; their error is thrown on.
resolveNearbySearchCenter(location, outcome) ==
  IF ~outcome.ok
  THEN [ok |-> FALSE, error |-> outcome.error, center |-> NoCenter]
  ELSE [ok |-> TRUE, error |-> "",
        center |-> [pos |-> outcome.pos,
                    label |-> IF isCurrentLocationInput(location)
                              THEN "vi tri hien tai cua ban"
                              ELSE trim(location)]]

\* fetchNearbyPlaces throws before any request when it is given neither a
\* keyword nor a type (google-api.ts 300-304).
fetchRejects(args) ==
  /\ ~isCameraNearbyRequest(effectiveKeyword(args), args.type)
  /\ effectiveKeyword(args) = None /\ args.type = None

\* nearbySearch from the resolved center on to its wait for the directory:
\* the call record once the request is sent, or finished when
\* fetchNearbyPlaces has refused to send one.
queryDirectory(call, center) ==
  IF fetchRejects(call.args)
  THEN [call EXCEPT !.pc = "done", !.center = center]
  ELSE [call EXCEPT !.pc = "fetching", !.center = center,
                    !.directoryQueries = @ + 1]

\* executeTool(map, 'nearbySearch', args) up to its first wait for the
\* network: the argument checks and, with no location given, the map
\* center as search center, the stores cleared and the directory queried.
NearbySearchCalled(args) ==
  LET call == [IdleTool EXCEPT !.name = "nearbySearch", !.args = args] IN
  /\ tool.pc = "idle"
  /\ IF needsSearchTerm(args)
     THEN /\ toolResult' = toolFailure("needSearchTerm")
          /\ tool' = [call EXCEPT !.pc = "done"]
          /\ UNCHANGED <<layers, markers>>
     ELSE IF args.location = None \/ trim(args.location[1]) = ""
     THEN /\ tool' = queryDirectory(call,
                        [pos |-> mapCenter, label |-> "tam ban do hien tai"])
          /\ layers' = clearAllLayers(layers)
          /\ markers' = clearAllMarkers(markers)
          /\ toolResult' = IF fetchRejects(args)
                           THEN toolFailure("noSearchTerm") ELSE toolResult
     ELSE /\ tool' = [call EXCEPT !.pc = "resolving"]
          /\ UNCHANGED <<layers, markers, toolResult>>
  /\ UNCHANGED <<mapCenter, lastNearbySearchContext, previous>>
  /\ UNCHANGED <<cacheVars, INFLIGHT_REQUESTS, lastCall, lastStore, routeVars,
                 decoder, buffer>>

\* A variant of storesAfterResolve in which the stores are cleared before
\* the center is known.
storesClearedFirst(r, stores) ==
  <<clearAllLayers(stores[1]), clearAllMarkers(stores[2])>>

\* The layer and marker stores once `await resolveNearbySearchCenter` is
\* over: the two clearAll calls that follow it run only when it has not
\* thrown.
storesAfterResolve(r, stores) ==
  IF r.ok THEN <<clearAllLayers(stores[1]), clearAllMarkers(stores[2])>>
  ELSE stores

\* resolveNearbySearchCenter's wait ends: the geolocation API or the text
\* search answers, or fails.
CenterResolves(outcome) ==
  LET r == resolveNearbySearchCenter(tool.args.location[1], outcome)
      call == [tool EXCEPT !.resolved = IF outcome.ok THEN "ok" ELSE "failed"]
  IN
  /\ tool.pc = "resolving"
  /\ layers' = storesAfterResolve(r, <<layers, markers>>)[1]
  /\ markers' = storesAfterResolve(r, <<layers, markers>>)[2]
  /\ IF ~r.ok
     THEN /\ toolResult' = toolFailure(r.error)
          /\ tool' = [call EXCEPT !.pc = "done"]
     ELSE /\ tool' = queryDirectory(call, r.center)
          /\ toolResult' = IF fetchRejects(tool.args)
                           THEN toolFailure("noSearchTerm") ELSE toolResult
  /\ UNCHANGED <<mapCenter, lastNearbySearchContext, previous>>
  /\ UNCHANGED <<cacheVars, INFLIGHT_REQUESTS, lastCall, lastStore, routeVars,
                 decoder, buffer>>

\* The places list nearbySearch works on once the directory has answered
\* (lines 262-309): the camera directory for a camera request, the place
\* directory otherwise.
nearbyFetch(args, center, data) ==
  IF isCameraNearbyRequest(effectiveKeyword(args), args.type)
  THEN fetchNearbyCameras(center.pos, numberOrUndefined(args.radius), data)
  ELSE fetchNearbyPlaces(center.pos, effectiveKeyword(args), args.type,
                         numberOrUndefined(args.radius),
                         numberOrUndefined(args.minRating), data)

\* mutant of visiblePlaces: the requested limit is not applied
visiblePlacesUnlimited(places, requestedLimit) == places

\* requestedLimit === null ? places : places.slice(0, requestedLimit)
visiblePlaces(places, requestedLimit) ==
  IF requestedLimit = None THEN places ELSE slice(places, requestedLimit[1])

\* The data of a successful nearbySearch result (lines 320-407).
nearbyData(args, center, found) ==
  LET requestedLimit == normalizeNearbyLimit(args.limit)
      shown == IF found.places = <<>> THEN <<>>
               ELSE visiblePlaces(found.places, requestedLimit)
  IN [center |-> center,
      radius |-> found.radius,
      keyword |-> effectiveKeyword(args),
      type |-> IF isCameraNearbyRequest(effectiveKeyword(args), args.type)
               THEN Some("traffic_camera") ELSE args.type,
      minRating |-> found.minRating,
      requestedLimit |-> requestedLimit,
      rawCount |-> found.rawCount,
      filteredOutCount |-> found.filteredOutCount,
      ratingFilteredOutCount |-> found.ratingFilteredOutCount,
      totalFound |-> Len(found.places),
      shown |-> Len(shown),
      places |-> shown,
      \* of the result's message: whether it adds that the directory did
      \* return places but none passed the filters (lines 325-327)
      allFilteredNote |-> found.places = <<>> /\ found.rawCount > 0]

\* The directory answers and nearbySearch runs to its end: on an error the
\* exception reaches executeTool with the stores already cleared; otherwise
\* the buffer is drawn, the shown places become markers (none when nothing
\* was found), the map is fitted around the buffer and the result returned.
DirectoryResponds(data) ==
  LET found == nearbyFetch(tool.args, tool.center, data)
      result == nearbyData(tool.args, tool.center, found)
  IN
  /\ tool.pc = "fetching"
  /\ tool' = [tool EXCEPT !.pc = "done", !.filtered = found.places]
  /\ IF ~found.ok
     THEN /\ toolResult' = toolFailure(found.error)
          /\ UNCHANGED <<layers, markers, mapCenter>>
     ELSE /\ layers' = [layers EXCEPT !.nearbyBuffer =
                 Some([center |-> tool.center.pos,
                       radiusMeters |-> found.radius])]
          /\ markers' = IF found.places = <<>> THEN markers
                        ELSE [markers EXCEPT !.nearbyPlaces = result.places,
                                             !.openPopupId = None]
          /\ mapCenter' = tool.center.pos
          /\ toolResult' = [success |-> TRUE, error |-> "",
                            data |-> Some(result)]
  /\ UNCHANGED <<lastNearbySearchContext, previous>>
  /\ UNCHANGED <<cacheVars, INFLIGHT_REQUESTS, lastCall, lastStore, routeVars,
                 decoder, buffer>>

\* What a later call could know of a completed one.
contextOf(result) ==
  IF ~result.success THEN None
  ELSE Some([keyword |-> result.data[1].keyword,
             type |-> result.data[1].type,
             radius |-> result.data[1].radius])

\* The caller's loop takes the result (MapCopilot.tsx, executedTools.push)
\* and is ready for the next tool call.
ResultCollected ==
  /\ tool.pc = "done"
  /\ previous' = [name |-> tool.name,
                  success |-> toolResult.success,
                  context |-> IF tool.name = "nearbySearch"
                              THEN contextOf(toolResult) ELSE None]
  /\ tool' = IdleTool
  /\ toolResult' = NoResult
  /\ UNCHANGED <<mapCenter, lastNearbySearchContext, layers, markers>>
  /\ UNCHANGED <<cacheVars, INFLIGHT_REQUESTS, lastCall, lastStore, routeVars,
                 decoder, buffer>>

NextNearby ==
  \/ \E args \in NearbyArgs : NearbySearchCalled(args)
  \/ \E outcome \in ResolveOutcomes : CenterResolves(outcome)
  \/ \E data \in DirectoryResponses : DirectoryResponds(data)
  \/ ResultCollected

\* The browser side runs against one server configuration.
InitNearby == Init /\ CACHE_ENABLED /\ CACHE_TTL_MS = PositiveTtl

SpecNearby == InitNearby /\ [][NextNearby]_vars

\* --------------------------------------------- executeTool, other tools

\* The keys of TOOL_EXECUTORS besides nearbySearch, and a name that is not
\* among them.
OtherTools ==
  {"searchPlace", "getDirections", "getUserLocation", "getMapCenter", "askHR"}
RegisteredTools == OtherTools \cup {"nearbySearch"}
\* TOOL_EXECUTORS is an object literal, so TOOL_EXECUTORS[name] also finds
\* what it inherits from Object.prototype: for "constructor", Object itself.
InheritedKeys == {"constructor"}
UnknownTools == {"deleteLayer"} \cup InheritedKeys

\* What `await executor(map, args)` gives when executor is Object: the map
\* object it was handed, which has no success, message or data (the missing
\* success is written FALSE here).
objectResult == [success |-> FALSE, error |-> "", data |-> Some([object |-> "map"])]

\* searchPlace queries: one that findMatchingProvince matches against the
\* loaded province list, one that it does not.
Queries == {"Ha Noi", "Cho Ben Thanh"}
findMatchingProvince(query) == query = "Ha Noi"

\* What a tool's collaborator (text search, boundary, directions, device
\* position, HR service) answers: a position together with the number of
\* coordinates found in an HR answer, or an error.
CollaboratorOutcomes ==
  { [ok |-> TRUE, pos |-> 60, coords |-> n, error |-> ""] : n \in 0..1 }
  \cup { [ok |-> FALSE, pos |-> 0, coords |-> 0, error |-> "collaboratorError"] }

\* executeTool(map, name, args) for a name other than nearbySearch, up to
\* the tool's first wait: a name that TOOL_EXECUTORS[name] does not find is
\* answered at once with nothing run, one it finds on the prototype is
\* called as if it were a tool; getMapCenter reads the map and returns; searchPlace,
\* getDirections and getUserLocation clear both stores and ask their
\* collaborator; askHR asks the HR service first.
ToolCalled(name, query) ==
  /\ tool.pc = "idle"
  /\ IF name \in InheritedKeys
     THEN /\ toolResult' = objectResult
          /\ tool' = [IdleTool EXCEPT !.pc = "done", !.name = name]
          /\ UNCHANGED <<layers, markers>>
     ELSE IF name \notin OtherTools
     THEN /\ toolResult' = toolFailure("unsupportedTool")
          /\ tool' = [IdleTool EXCEPT !.pc = "done", !.name = name]
          /\ UNCHANGED <<layers, markers>>
     ELSE IF name = "getMapCenter"
     THEN /\ toolResult' = [success |-> TRUE, error |-> "",
                            data |-> Some([pos |-> mapCenter])]
          /\ tool' = [IdleTool EXCEPT !.pc = "done", !.name = name]
          /\ UNCHANGED <<layers, markers>>
     ELSE IF name = "askHR"
     THEN /\ tool' = [IdleTool EXCEPT !.pc = "waiting", !.name = name,
                                      !.query = query]
          /\ UNCHANGED <<layers, markers, toolResult>>
     ELSE /\ tool' = [IdleTool EXCEPT !.pc = "waiting", !.name = name,
                                      !.query = query]
          /\ layers' = clearAllLayers(layers)
          /\ markers' = clearAllMarkers(markers)
          /\ UNCHANGED toolResult
  /\ UNCHANGED <<mapCenter, lastNearbySearchContext, previous>>
  /\ UNCHANGED <<cacheVars, INFLIGHT_REQUESTS, lastCall, lastStore, routeVars,
                 decoder, buffer>>

\* The stores and the map once the waiting tool's collaborator has answered
\* without error.
layersAfter(name, query, outcome) ==
  IF name = "searchPlace" /\ findMatchingProvince(query)
  THEN [layers EXCEPT !.boundary = Some([center |-> outcome.pos])]
  ELSE IF name = "getDirections"
  THEN [layers EXCEPT !.directions = Some([start |-> mapCenter,
                                           end |-> outcome.pos])]
  ELSE IF name = "askHR" /\ outcome.coords > 0 THEN clearAllLayers(layers)
  ELSE layers

markersAfter(name, query, outcome) ==
  IF name = "searchPlace"
  THEN IF findMatchingProvince(query)
       THEN [markers EXCEPT !.boundary = Some([pos |-> outcome.pos]),
                            !.searchPlace = None,
                            !.openPopupId = Some("boundary")]
       ELSE [markers EXCEPT !.searchPlace = Some([pos |-> outcome.pos]),
                            !.boundary = None,
                            !.openPopupId = Some("search")]
  ELSE IF name = "getDirections"
  THEN [markers EXCEPT !.directionsStart = Some([pos |-> mapCenter]),
                       !.directionsEnd = Some([pos |-> outcome.pos])]
  ELSE IF name = "getUserLocation"
  THEN [markers EXCEPT !.userLocation = Some([pos |-> outcome.pos])]
  ELSE IF name = "askHR" /\ outcome.coords > 0
  THEN [clearAllMarkers(markers) EXCEPT !.nearbyPlaces =
          [i \in 1..outcome.coords |->
             [pos |-> outcome.pos, rating |-> None,
              distanceMeters |-> None]]]
  ELSE markers

\* The collaborator of the waiting tool answers and the tool runs to its
\* end. An error thrown by searchPlace, getDirections or askHR is caught by
\* executeTool; getUserLocation resolves its own failure result.
CollaboratorAnswers(outcome) ==
  /\ tool.pc = "waiting"
  /\ tool' = [tool EXCEPT !.pc = "done"]
  /\ IF ~outcome.ok
     THEN /\ toolResult' = toolFailure(outcome.error)
          /\ UNCHANGED <<layers, markers, mapCenter>>
     ELSE /\ layers' = layersAfter(tool.name, tool.query, outcome)
          /\ markers' = markersAfter(tool.name, tool.query, outcome)
          /\ mapCenter' = IF tool.name = "askHR" /\ outcome.coords = 0
                          THEN mapCenter ELSE outcome.pos
          /\ toolResult' = [success |-> TRUE, error |-> "",
                            data |-> Some([pos |-> outcome.pos,
                                           shownOnMap |-> outcome.coords > 0])]
  /\ UNCHANGED <<lastNearbySearchContext, previous>>
  /\ UNCHANGED <<cacheVars, INFLIGHT_REQUESTS, lastCall, lastStore, routeVars,
                 decoder, buffer>>

\* The nearbySearch calls and directory answers followed among other tools.
ToolsNearbyArgs ==
  [keyword : {None, Some("  "), Some("cafe")},
   type : {None, Some("traffic_camera")},
   radius : {Absent, Num(50000)},
   location : {None, Some("   "), Some("vi tri hien tai"),
               Some("Cho Ben Thanh")},
   minRating : MinRatingArgs,
   limit : {Absent}]
ToolsDirectoryResponses ==
  { d \in DirectoryResponses : Len(d.results) <= 1 }

NextTools ==
  \/ \E name \in OtherTools \cup UnknownTools, query \in Queries :
        ToolCalled(name, query)
  \/ \E outcome \in CollaboratorOutcomes : CollaboratorAnswers(outcome)
  \/ \E args \in ToolsNearbyArgs : NearbySearchCalled(args)
  \/ \E outcome \in ResolveOutcomes : CenterResolves(outcome)
  \/ \E data \in ToolsDirectoryResponses : DirectoryResponds(data)
  \/ ResultCollected

SpecTools == InitNearby /\ [][NextTools]_vars

\* ------------------------------------- nearbySearch with a result limit

\* Limits the LLM can ask for: none, not a number, 1.5, 2, 0, -1 and 250.
RequestedLimits ==
  {Absent, NaN, Num(150), Num(200), Num(0), Num(-100), Num(25000)}
LimitNearbyArgs ==
  [keyword : {Some("cafe")}, type : {None}, radius : {Absent, Num(50000)},
   location : {None}, minRating : MinRatingArgs, limit : RequestedLimits]

NextLimit ==
  \/ \E args \in LimitNearbyArgs : NearbySearchCalled(args)
  \/ \E data \in DirectoryResponses : DirectoryResponds(data)
  \/ ResultCollected

SpecLimit == InitNearby /\ [][NextLimit]_vars

\* nearbySearch over directory answers with places at equal distances: two
\* on opposite sides of the center, 50 m away, and one nearer.
MaxSorted == 3
SortCandidates ==
  { [pos |-> 50, finite |-> TRUE, rated |-> TRUE, rating |-> 45],
    [pos |-> -50, finite |-> TRUE, rated |-> FALSE, rating |-> 0],
    [pos |-> 20, finite |-> TRUE, rated |-> TRUE, rating |-> 39] }
SortDirectoryResponses ==
  { [status |-> "OK", statusCode |-> 200, results |-> l] :
       l \in ListsUpTo(SortCandidates, MaxSorted) }
SortNearbyArgs ==
  [keyword : {Some("cafe")}, type : {None, Some("traffic_camera")},
   radius : {Absent}, location : {None}, minRating : {Absent, Num(396)},
   limit : {Absent, Num(100)}]

NextSort ==
  \/ \E args \in SortNearbyArgs : NearbySearchCalled(args)
  \/ \E data \in SortDirectoryResponses : DirectoryResponds(data)
  \/ ResultCollected

SpecSort == InitNearby /\ [][NextSort]_vars

\* nearbySearch over the radii a caller can pass: none, NaN, an infinity, a
\* string, 0, negative, around a half, around the two ends of the range.
RequestedRadii ==
  {Absent, NaN, Infinite, Text, Num(0), Num(-50), Num(-51), Num(-25000),
   Num(9949), Num(9950), Num(10049), Num(49940), Num(49950), Num(49960),
   Num(4999950), Num(5000000), Num(5000051), Num(7000000)}
RadiusNearbyArgs ==
  [keyword : {Some("cafe")}, type : {None, Some("traffic_camera")},
   radius : RequestedRadii, location : {None}, minRating : {Absent},
   limit : {Absent}]

NextRadius ==
  \/ \E args \in RadiusNearbyArgs : NearbySearchCalled(args)
  \/ \E data \in ToolsDirectoryResponses : DirectoryResponds(data)
  \/ ResultCollected

SpecRadius == InitNearby /\ [][NextRadius]_vars

\* nearbySearch over directory answers whose items are within the default
\* radius and well rated, within it and unrated, beyond it, or without
\* coordinates.
MaxCounted == 3
CountCandidates ==
  { [pos |-> 50, finite |-> TRUE, rated |-> TRUE, rating |-> 45],
    [pos |-> -50, finite |-> TRUE, rated |-> FALSE, rating |-> 0],
    [pos |-> 1500, finite |-> TRUE, rated |-> TRUE, rating |-> 45],
    [pos |-> 0, finite |-> FALSE, rated |-> FALSE, rating |-> 0] }
CountDirectoryResponses ==
  { [status |-> "OK", statusCode |-> 200, results |-> l] :
       l \in ListsUpTo(CountCandidates, MaxCounted) }

NextCount ==
  \/ \E args \in SortNearbyArgs : NearbySearchCalled(args)
  \/ \E data \in CountDirectoryResponses : DirectoryResponds(data)
  \/ ResultCollected

SpecCount == InitNearby /\ [][NextCount]_vars

\* ------------------------------------ decodeGooglePolyline (part_011)

\* The longest encoded string decoded.
MaxEncoded == 4

\* Character codes an encoded string is made of: '?' (a chunk that ends a
\* number, 0), 'B' (ends a number, low bits 3), '_' (a chunk that says more
\* follow), and two outside the encoding's alphabet of codes 63..126: a
\* space (32) and 'È' (200).
EncodedChars == {63, 66, 95, 32, 200}
EncodedStrings == ListsUpTo(EncodedChars, MaxEncoded)

\* encoded.charCodeAt(index), index counted from 0: NaN past the end.
charCodeAt(encoded, index) ==
  IF index < Len(encoded) THEN Num(encoded[index + 1]) ELSE NaN

\* An int32 is kept as the set of the positions (0..31) of its 1 bits.
RECURSIVE pow2(_)
pow2(n) == IF n = 0 THEN 1 ELSE 2 * pow2(n - 1)

\* The bits of a number of 0..31.
bitsOf(low) == {p \in 0..4 : (low \div pow2(p)) % 2 = 1}

\* result | ((byte & 0x1f) << shift): NaN & 0x1f is 0, a negative byte
\* keeps the low five bits of its two's complement, the shift count is
\* taken modulo 32 and bits shifted beyond bit 31 are lost.
orChunk(result, byte, shift) ==
  LET low == IF byte.kind = "nan" THEN 0 ELSE byte.x % 32
  IN result \cup ({p + (shift % 32) : p \in bitsOf(low)} \cap (0..31))

RECURSIVE sumPow2(_)
sumPow2(positions) ==
  IF positions = {} THEN 0
  ELSE LET p == CHOOSE q \in positions : TRUE
       IN pow2(p) + sumPow2(positions \ {p})

\* result >> 1, the sign bit kept.
shiftRightOne(result) ==
  sumPow2({p - 1 : p \in result \cap (1..30)})
    - (IF 31 \in result THEN pow2(30) ELSE 0)

\* result & 1 ? ~(result >> 1) : result >> 1
zigzag(result) ==
  IF 0 \in result THEN -shiftRightOne(result) - 1 ELSE shiftRightOne(result)

\* decodeGooglePolyline(encoded) is called (lines 76-79).
DecodeCalled(encoded) ==
  /\ decoder.pc = "idle"
  /\ decoder' = [IdleDecoder EXCEPT !.pc = "while", !.encoded = encoded]
  /\ UNCHANGED <<cacheVars, INFLIGHT_REQUESTS, lastCall, lastStore, routeVars,
                 mapCenter, lastNearbySearchContext, layers, markers, tool,
                 toolResult, previous, buffer>>

\* while (index < encoded.length): enter the body, or return.
WhileTested ==
  /\ decoder.pc = "while"
  /\ decoder' = IF decoder.index < Len(decoder.encoded)
                THEN [decoder EXCEPT !.pc = "lat", !.shift = 0, !.result = {}]
                ELSE [decoder EXCEPT !.pc = "done"]
  /\ UNCHANGED <<cacheVars, INFLIGHT_REQUESTS, lastCall, lastStore, routeVars,
                 mapCenter, lastNearbySearchContext, layers, markers, tool,
                 toolResult, previous, buffer>>

\* A variant of the do-while test that also goes on reading when the byte
\* is NaN.
chunkContinuesOnNaN(byte) == byte.kind = "nan" \/ byte.x >= 32

\* while (byte >= 0x20): false for NaN.
chunkContinues(byte) == byte.kind = "number" /\ byte.x >= 32

\* One pass of a do-while loop (lines 86-91 for the latitude, 98-103 for
\* the longitude) with what follows it when the loop ends: the delta is
\* added and, after the longitude, the coordinate pushed.
ChunkRead ==
  LET code == charCodeAt(decoder.encoded, decoder.index)
      byte == IF code.kind = "nan" THEN NaN ELSE Num(code.x - 63)
      result == orChunk(decoder.result, byte, decoder.shift)
      read == [decoder EXCEPT !.index = @ + 1, !.result = result,
                              !.shift = @ + 5]
      lng == decoder.lng + zigzag(result)
  IN
  /\ decoder.pc \in {"lat", "lng"}
  /\ decoder.index < Len(decoder.encoded) + MaxEncoded
  /\ decoder' =
       IF chunkContinues(byte) THEN read
       ELSE IF decoder.pc = "lat"
       THEN [read EXCEPT !.pc = "lng", !.lat = @ + zigzag(result),
                         !.shift = 0, !.result = {}]
       ELSE [read EXCEPT !.pc = "while", !.lng = lng,
                         !.coordinates = Append(@, <<lng, read.lat>>)]
  /\ UNCHANGED <<cacheVars, INFLIGHT_REQUESTS, lastCall, lastStore, routeVars,
                 mapCenter, lastNearbySearchContext, layers, markers, tool,
                 toolResult, previous, buffer>>

\* The caller takes the coordinates returned.
DecodeReturned ==
  /\ decoder.pc = "done"
  /\ decoder' = IdleDecoder
  /\ UNCHANGED <<cacheVars, INFLIGHT_REQUESTS, lastCall, lastStore, routeVars,
                 mapCenter, lastNearbySearchContext, layers, markers, tool,
                 toolResult, previous, buffer>>

DecodeStep == WhileTested \/ ChunkRead

NextDecode ==
  \/ \E encoded \in EncodedStrings : DecodeCalled(encoded)
  \/ WhileTested
  \/ ChunkRead
  \/ DecodeReturned

\* The decoder is synchronous code: once called it runs on.
SpecDecode == InitNearby /\ [][NextDecode]_vars /\ WF_vars(DecodeStep)

\* ---------------------------------- buildBufferCoordinates (part_011)

EARTH_RADIUS_M == 6378137
BUFFER_SEGMENTS == 72

\* Doubles too small to tell apart in meters or degrees are measured in
\* quanta of 2^-80 radian. A center is known by what the function uses of
\* it: whether toRadians(center.lng) is 0, the spacing of the doubles around
\* toRadians(center.lng) in quanta (2^-52 radian = 2^28 quanta near 1.86
\* rad, 2^-61 radian = 2^19 quanta near -0.0022 rad), and cos(center.lat)
\* in thousandths.
BufferCenters ==
  { [name |-> "Ho Chi Minh City (106.7009, 10.7769)", lngZero |-> FALSE,
     lngUlp |-> 268435456, cosLat |-> 982],
    [name |-> "Greenwich (0, 51.4779)", lngZero |-> TRUE,
     lngUlp |-> 0, cosLat |-> 623],
    [name |-> "London (-0.1276, 51.5072)", lngZero |-> FALSE,
     lngUlp |-> 524288, cosLat |-> 622] }
BufferRadii == {MIN_NEARBY_RADIUS, DEFAULT_NEARBY_RADIUS, MAX_NEARBY_RADIUS}
centerNamed(name) == CHOOSE c \in BufferCenters : c.name = name

\* Math.sin(bearing) in quanta, where it is within 2^-50 of zero. The
\* bearing of step 0 is 0 and its sine 0; the bearing of step 36 is the
\* double nearest pi and that of step 72 the double nearest 2 pi, both a
\* little below the real numbers, so the sines are 1.2246e-16 and
\* -2.4493e-16, not 0.
sinNearZero(i) ==
  IF i = 0 THEN 0
  ELSE IF 2 * i = BUFFER_SEGMENTS THEN 148050714
  ELSE -296101427

\* Math.cos(bearing) in thousandths; it is exactly 1 at steps 0 and 72.
cosBearing(i) ==
  LET quarter == <<1000, 996, 985, 966, 940, 906, 866, 819, 766, 707, 643,
                   574, 500, 423, 342, 259, 174, 87, 0>>
      j == IF 2 * i <= BUFFER_SEGMENTS THEN i ELSE BUFFER_SEGMENTS - i
  IN IF 4 * j <= BUFFER_SEGMENTS THEN quarter[j + 1]
     ELSE -quarter[(BUFFER_SEGMENTS \div 2) - j + 1]

\* Math.atan2(sin(bearing) * sin(angularDistance) * cos(centerLatRad),
\* cos(angularDistance) - sin(centerLatRad) * sin(latRad)) of step i: 0
\* at step 0; where the sine is next to zero, a tiny angle of about
\* sin(bearing) * (radiusMeters / EARTH_RADIUS_M) / cos(centerLatRad), in
\* quanta; elsewhere an angle of the order of the angular distance.
lngOffset(center, radiusMeters, i) ==
  LET perMeter == Abs(sinNearZero(i)) \div EARTH_RADIUS_M
      size == (((perMeter * radiusMeters * 10) \div center.cosLat) * 100)
  IN IF i = 0 THEN [kind |-> "zero", quanta |-> 0, bearing |-> 0]
     ELSE IF 2 * i = BUFFER_SEGMENTS \/ i = BUFFER_SEGMENTS
     THEN [kind |-> "tiny", bearing |-> 0,
           quanta |-> IF sinNearZero(i) < 0 THEN -size ELSE size]
     ELSE [kind |-> "large", quanta |-> 0, bearing |-> i]

\* centerLngRad + offset in double arithmetic, told by how it differs
\* from centerLngRad: by no more than rounding takes away (ulps = 0 and
\* quanta = 0), by a number of steps of the doubles around centerLngRad, by
\* the offset itself when centerLngRad is 0, or by an angle of the order
\* of the angular distance in the direction of the bearing.
addDouble(center, offset) ==
  IF offset.kind = "large"
  THEN [ulps |-> 0, quanta |-> 0, bearing |-> offset.bearing]
  ELSE IF center.lngZero
  THEN [ulps |-> 0, quanta |-> offset.quanta, bearing |-> 0]
  ELSE [ulps |-> (2 * offset.quanta + center.lngUlp)
                    \div (2 * center.lngUlp),
        quanta |-> 0, bearing |-> 0]

\* toDegrees(rad) = rad * 180 / Math.PI of a longitude: two longitudes that
\* differ by several steps, or near 0 by any amount, stay different.
toDegrees(rad) == [degreesOf |-> rad]

\* The point of step i (lines 55-67): its longitude, and its latitude as
\* meters north of the center.
bufferPoint(center, radiusMeters, i) ==
  <<toDegrees(addDouble(center, lngOffset(center, radiusMeters, i))),
    (radiusMeters * cosBearing(i)) \div 1000>>

\* buildBufferCoordinates(center, radiusMeters) is called (lines 49-52).
BufferCalled(center, radiusMeters) ==
  /\ buffer.pc = "idle"
  /\ buffer' = [IdleBuffer EXCEPT !.pc = "for", !.center = center.name,
                                  !.radiusMeters = radiusMeters]
  /\ UNCHANGED <<cacheVars, INFLIGHT_REQUESTS, lastCall, lastStore, routeVars,
                 mapCenter, lastNearbySearchContext, layers, markers, tool,
                 toolResult, previous, decoder>>

\* One pass of the for loop: the point of step i is pushed, i += 1.
CoordinatePushed ==
  /\ buffer.pc = "for"
  /\ buffer.i <= BUFFER_SEGMENTS
  /\ buffer' = [buffer EXCEPT
        !.coordinates = Append(@, bufferPoint(centerNamed(buffer.center),
                                              buffer.radiusMeters, buffer.i)),
        !.i = @ + 1]
  /\ UNCHANGED <<cacheVars, INFLIGHT_REQUESTS, lastCall, lastStore, routeVars,
                 mapCenter, lastNearbySearchContext, layers, markers, tool,
                 toolResult, previous, decoder>>

\* The loop ends and the coordinates are returned.
BufferReturned ==
  /\ buffer.pc = "for"
  /\ ~(buffer.i <= BUFFER_SEGMENTS)
  /\ buffer' = [buffer EXCEPT !.pc = "done"]
  /\ UNCHANGED <<cacheVars, INFLIGHT_REQUESTS, lastCall, lastStore, routeVars,
                 mapCenter, lastNearbySearchContext, layers, markers, tool,
                 toolResult, previous, decoder>>

\* The caller takes the ring.
BufferTaken ==
  /\ buffer.pc = "done"
  /\ buffer' = IdleBuffer
  /\ UNCHANGED <<cacheVars, INFLIGHT_REQUESTS, lastCall, lastStore, routeVars,
                 mapCenter, lastNearbySearchContext, layers, markers, tool,
                 toolResult, previous, decoder>>

NextBuffer ==
  \/ \E center \in BufferCenters, radiusMeters \in BufferRadii :
        BufferCalled(center, radiusMeters)
  \/ CoordinatePushed
  \/ BufferReturned
  \/ BufferTaken

SpecBuffer == InitNearby /\ [][NextBuffer]_vars

\* ------------------------------------------------ claims on the cache API

hasExpiredEntry(k) ==
  \E i \in 1..Len(RESPONSE_CACHE) :
    RESPONSE_CACHE[i].key = k /\ RESPONSE_CACHE[i].expiresAt <= now

hasLiveEntry(k, v) ==
  \E i \in 1..Len(RESPONSE_CACHE) :
    /\ RESPONSE_CACHE[i].key = k
    /\ RESPONSE_CACHE[i].value = v
    /\ RESPONSE_CACHE[i].expiresAt > now

\* C3 (as claimed): the response cache never holds more than
\* MAP_AGENT_CACHE_MAX_ENTRIES entries.
C3_CapacityBound == Len(RESPONSE_CACHE) <= CACHE_MAX_ENTRIES

\* C4: a getCachedResponse(K) at or after the entry's expiresAt returns null
\* and removes exactly that entry (the size drops by one, the other entries
\* stay as they were); a value is only ever returned from an entry of K whose
\* expiresAt has not passed.
C4_TtlExpiry ==
  [][\A k \in Keys : CallGet(k) =>
        /\ hasExpiredEntry(k) =>
              /\ lastCall'.ret = None
              /\ Len(RESPONSE_CACHE') = Len(RESPONSE_CACHE) - 1
              /\ RESPONSE_CACHE' =
                   SelectSeq(RESPONSE_CACHE, LAMBDA e : e.key # k)
        /\ lastCall'.ret # None =>
              \E v \in Values : lastCall'.ret = Some(v) /\ hasLiveEntry(k, v)
    ]_vars

\* C4 witness: the key stored last was looked up after its expiry, and the
\* lookup returned null and took the entry out of the Map.
C4_Witness ==
  /\ ~cachingOff
  /\ lastCall.op = "get" /\ lastCall.ret = None
  /\ lastStore.key = lastCall.key
  /\ now >= lastStore.at + CACHE_TTL_MS
  /\ indexOfKey(RESPONSE_CACHE, lastCall.key) = 0
  /\ Len(RESPONSE_CACHE) > 0

\* C5: with caching enabled and TTL > 0, a getCachedResponse(K) that follows
\* setCachedResponse(K, v) with no store in between, at a time before
\* t + TTL, returns v.
C5_StoreThenLookup ==
  [][\A k \in Keys : (/\ CallGet(k)
                       /\ ~cachingOff
                       /\ lastStore.key = k
                       /\ now < lastStore.at + CACHE_TTL_MS)
        => lastCall'.ret = Some(lastStore.value)
    ]_vars

\* C5 witness: a lookup of the last stored key, some time after the store
\* and with another key's entry in the Map, returned the stored value.
C5_Witness ==
  /\ lastCall.op = "get"
  /\ lastCall.key = lastStore.key
  /\ lastCall.ret = Some(lastStore.value)
  /\ now > lastStore.at
  /\ \E i \in 1..Len(RESPONSE_CACHE) :
        /\ RESPONSE_CACHE[i].key # lastStore.key
        /\ RESPONSE_CACHE[i].value # lastStore.value

\* ------------------------------------------ claims on the route handler

CallIds == 1..Len(calls)
\* The request that issued call c: the first to await its promise.
holderOf(c) == calls[c].reactions[1]
handled(r) == requests[r].pc # "new"

\* Every request with call c's key whose handler ran after c was issued is
\* awaiting c's promise.
collapsedOnto(c) ==
  \A r \in Requests :
    (r > holderOf(c) /\ handled(r) /\ requests[r].key = calls[c].key)
      => (requests[r].call = c /\ requests[r].pc = "awaitInflight")

\* C1: requests with the same key whose cache/inflight check runs while the
\* first one's upstream call is unsettled share that one call: per key at
\* most one request is the inflight holder and at most one call is pending,
\* every later same-key request awaits the pending call, and all requests
\* answered from one call get the same outcome and, on success, the payload
\* that call produced.
C1_InflightCollapse ==
  /\ \A k \in RequestKeys :
       Cardinality({r \in Requests : /\ requests[r].pc = "awaitCompletion"
                                     /\ requests[r].key = k}) <= 1
  /\ \A c, d \in CallIds :
       (/\ calls[c].state = "pending" /\ calls[d].state = "pending"
        /\ calls[c].key = calls[d].key) => c = d
  /\ \A c \in CallIds : calls[c].state = "pending" => collapsedOnto(c)
  /\ \A r, q \in Requests :
       (/\ requests[r].pc = "done" /\ requests[q].pc = "done"
        /\ requests[r].call # 0 /\ requests[r].call = requests[q].call)
       => /\ requests[r].resp.status = requests[q].resp.status
          /\ requests[r].resp.payload = requests[q].resp.payload
          /\ calls[requests[r].call].state = "fulfilled"
               => /\ requests[r].resp.status = 200
                  /\ requests[r].resp.payload = calls[requests[r].call].value

\* C1 witness: every request carried the same key, one upstream call was
\* issued, and all of them answered with its payload.
C1_Witness ==
  /\ Len(calls) = 1
  /\ calls[1].state = "fulfilled"
  /\ \A r \in Requests :
       /\ requests[r].pc = "done"
       /\ requests[r].call = 1
       /\ requests[r].resp.status = 200
       /\ requests[r].resp.payload = calls[1].value
  /\ \E r \in Requests : requests[r].resp.cacheSource = "inflight"

\* C2: a failed upstream call (rejected, or without a choice) leaves nothing
\* behind: once its holder has resumed, the inflight map has no slot for it,
\* every cache entry is the payload of a call that succeeded for that key,
\* and no request was handed the settled failure: an error response goes
\* only to a request that was already awaiting the call when it failed.
C2_FailuresNeverCached ==
  /\ \A c \in CallIds :
       (calls[c].state = "rejected" /\ requests[holderOf(c)].pc = "done")
       => INFLIGHT_REQUESTS[calls[c].key] # c
  /\ \A i \in 1..Len(RESPONSE_CACHE) :
       \E d \in CallIds :
         /\ calls[d].state = "fulfilled"
         /\ calls[d].key = RESPONSE_CACHE[i].key
         /\ calls[d].value = RESPONSE_CACHE[i].value
  /\ \A r \in Requests :
       (requests[r].resp.status = 500 /\ requests[r].resp.error # "noApiKey")
       => /\ requests[r].call # 0
          /\ calls[requests[r].call].state = "rejected"
          /\ ~requests[r].joinedSettled

\* C2 witness: a call for a key failed, its holder answered with the error,
\* and a request with that key that came later issued a call of its own.
C2_Witness ==
  \E c, d \in CallIds :
    /\ c < d
    /\ calls[c].key = calls[d].key
    /\ calls[c].state = "rejected"
    /\ calls[c].error = "noChoice"
    /\ requests[holderOf(c)].resp.status = 500
    /\ requests[holderOf(d)].pc = "awaitCompletion"

\* C6: with caching turned off (MAP_AGENT_CACHE_ENABLED = 'false', or
\* TTL <= 0) the response cache stays empty and no request is answered from
\* memory, while same-key requests that overlap an unsettled upstream call
\* are still collapsed onto it.
C6_DisabledCache ==
  cachingOff =>
    /\ RESPONSE_CACHE = <<>>
    /\ \A r \in Requests : requests[r].resp.cacheSource # "memory"
    /\ \A r \in Requests :
         (handled(r) /\ requests[r].resp.error \notin RejectReasons)
         => requests[r].call # 0
    /\ \A c \in CallIds : calls[c].state = "pending" => collapsedOnto(c)

\* C6 witness: caching is off; a call succeeded and answered its holder and
\* a waiter, and the next request with that key went upstream again.
C6_Witness ==
  /\ cachingOff
  /\ \E c, d \in CallIds :
       /\ c < d
       /\ calls[c].key = calls[d].key
       /\ calls[c].state = "fulfilled"
       /\ Len(calls[c].reactions) >= 2
       /\ \A i \in 1..Len(calls[c].reactions) :
            requests[calls[c].reactions[i]].resp.status = 200

\* C7: a slot for key K is in the inflight map exactly while K's upstream
\* call is unsettled: a pending call always has its slot, a settled call's
\* slot is gone as soon as the holder's continuation (the first job the
\* settling queues) has run, hence before any other handler runs, and no
\* request ever starts awaiting a promise that has already settled.
C7_InflightSlotLifetime ==
  /\ \A c \in CallIds :
       calls[c].state = "pending" => INFLIGHT_REQUESTS[calls[c].key] = c
  /\ \A k \in Keys :
       INFLIGHT_REQUESTS[k] # 0 =>
         /\ INFLIGHT_REQUESTS[k] \in CallIds
         /\ calls[INFLIGHT_REQUESTS[k]].key = k
         /\ \/ calls[INFLIGHT_REQUESTS[k]].state = "pending"
            \/ /\ microtasks # <<>>
               /\ Head(microtasks) = holderOf(INFLIGHT_REQUESTS[k])
  /\ \A r \in Requests : ~requests[r].joinedSettled

\* C7 witness: a call settled and its slot was removed, and a later request
\* with the same key registered a new slot for its own call.
C7_Witness ==
  \E c, d \in CallIds :
    /\ c < d
    /\ calls[c].key = calls[d].key
    /\ calls[c].state = "fulfilled"
    /\ calls[d].state = "pending"
    /\ INFLIGHT_REQUESTS[calls[d].key] = d

\* -------------------------------------------- claims on nearbySearch

returned == toolResult.data[1]
nearbyDone == tool.pc = "done" /\ tool.name = "nearbySearch"
nearbySucceeded == nearbyDone /\ toolResult.success
allWithin(places, center, radius) ==
  \A i \in 1..Len(places) :
     haversineDistanceMeters(center, places[i].pos) <= radius

\* C8: Strict radius invariant. When a nearbySearch has succeeded, on the
\* place path and on the camera path alike, the radius in the result is the
\* normalized radius of the call and every place of the returned list lies
\* within that radius of the resolved center; the markers displayed are
\* the returned places, inside the buffer drawn with that center and radius.
C8_StrictRadius ==
  nearbySucceeded =>
    /\ returned.radius =
          normalizeNearbyRadius(numberOrUndefined(tool.args.radius))
    /\ returned.center = tool.center
    /\ allWithin(returned.places, returned.center.pos, returned.radius)
    /\ markers.nearbyPlaces = returned.places
    /\ layers.nearbyBuffer = Some([center |-> returned.center.pos,
                                   radiusMeters |-> returned.radius])

\* A camera search around a resolved location returned a camera lying
\* exactly on the radius while the directory had offered one beyond it.
C8_Witness ==
  /\ nearbySucceeded
  /\ returned.type = Some("traffic_camera")
  /\ tool.args.location # None
  /\ returned.filteredOutCount > 0
  /\ \E i \in 1..Len(returned.places) :
        returned.places[i].distanceMeters = returned.radius
  /\ markers.nearbyPlaces = returned.places

\* C9: Rating invariant. When a nearbySearch called with a finite minRating
\* has succeeded, whichever directory served it, every returned place has a
\* rating, and that rating is at least the normalized minRating.
C9_RatingInvariant ==
  (nearbySucceeded
     /\ isFiniteNumber(numberOrUndefined(tool.args.minRating))) =>
    \A i \in 1..Len(returned.places) :
       /\ returned.places[i].rating # None
       /\ returned.places[i].rating[1] >=
             normalizeMinRating(tool.args.minRating)[1]

\* C10: Context reuse. A nearbySearch that omits keyword, type and location
\* and comes right after a successful nearbySearch succeeds, with the
\* keyword and type of that search and, when it names no radius, its radius.
C10_ContextReuse ==
  (nearbyDone /\ previous.name = "nearbySearch" /\ previous.success
     /\ tool.args.keyword = None /\ tool.args.type = None
     /\ tool.args.location = None) =>
    /\ toolResult.success
    /\ returned.keyword = previous.context[1].keyword
    /\ returned.type = previous.context[1].type
    /\ (tool.args.radius = Absent =>
          returned.radius = previous.context[1].radius)

\* ----------------------------------------- claims on the tool boundary

\* C11: Context invalidation. Once a registered tool other than nearbySearch
\* has run, no nearby-search context is stored, and a nearbySearch called
\* right after it without keyword and type fails with the 'need a search
\* term' error, whatever nearby search came before that tool.
C11_ContextInvalidation ==
  /\ (tool.pc = "done" /\ tool.name \in OtherTools) =>
        lastNearbySearchContext = None
  /\ (nearbyDone /\ previous.name \in OtherTools
        /\ needsSearchTerm(tool.args)) =>
        /\ lastNearbySearchContext = None
        /\ toolResult = toolFailure("needSearchTerm")

\* A nearby search drew its buffer, getMapCenter ran and left it in place,
\* and the nearbySearch called next without keyword and type has failed.
C11_Witness ==
  /\ nearbyDone /\ previous.name = "getMapCenter" /\ previous.success
  /\ needsSearchTerm(tool.args)
  /\ layers.nearbyBuffer # None
  /\ ~toolResult.success

\* C12: Need a search term. A nearbySearch called with no type and with a
\* keyword that is missing, empty or only white space has failed with the
\* 'need a search term' error by the time its first step is over: it has
\* waited for no location and sent no request to a directory.
C12_NeedSearchTerm ==
  (tool.name = "nearbySearch" /\ tool.pc # "idle" /\ tool.args.type = None
     /\ (tool.args.keyword = None \/ trim(tool.args.keyword[1]) = "")) =>
    /\ tool.pc = "done"
    /\ toolResult = toolFailure("needSearchTerm")
    /\ tool.resolved = "none"
    /\ tool.directoryQueries = 0

\* A call with a white-space keyword and a current-location phrase failed.
C12_Witness ==
  /\ nearbyDone /\ tool.args.keyword = Some("  ") /\ tool.args.type = None
  /\ tool.args.location = Some("vi tri hien tai")
  /\ toolResult = toolFailure("needSearchTerm")

\* C13: Result-count limit. With F the places left after the radius and
\* rating filters, in distance order: a successful nearbySearch reports
\* |F| as totalFound; asked for a limit L whose floor is positive it reports
\* min(floor(L), 200) as the limit and returns and displays exactly the
\* first min(floor(L), 200, |F|) places of F; asked for no limit it returns
\* and displays all of F.
C13_ResultLimit ==
  nearbySucceeded =>
    LET L == tool.args.limit
        F == tool.filtered
        cap == Min(mathFloor(L.x), MAX_REQUESTED_NEARBY_RESULTS)
    IN /\ returned.totalFound = Len(F)
       /\ markers.nearbyPlaces = returned.places
       /\ returned.shown = Len(returned.places)
       /\ (isFiniteNumber(L) /\ mathFloor(L.x) >= 1) =>
             /\ returned.requestedLimit = Some(cap)
             /\ returned.places = SubSeq(F, 1, Min(cap, Len(F)))
             /\ returned.shown <= MAX_REQUESTED_NEARBY_RESULTS
       /\ L = Absent => returned.places = F

\* Asked for 1.5 results, the search found two places and shows the nearer.
C13_Witness ==
  /\ nearbySucceeded /\ tool.args.limit = Num(150)
  /\ Len(tool.filtered) = 2
  /\ returned.places = <<tool.filtered[1]>>
  /\ returned.totalFound = 2 /\ returned.shown = 1

\* C14: Errors as values at the tool boundary. executeTool answers a name
\* that is not a registered tool with the 'unsupported tool' failure,
\* leaving the map, the layers and the markers as they were; when a
\* collaborator of a running tool (location lookup, directory, text search,
\* directions, device position, HR service) fails, the call ends there with
\* success false and that collaborator's error, no further request sent.
C14_ErrorsAsValues ==
  /\ [](tool.pc = "done" /\ tool.name \notin RegisteredTools
          => toolResult = toolFailure("unsupportedTool"))
  /\ [][ /\ \A name \in UnknownTools, query \in Queries :
              ToolCalled(name, query) =>
                 UNCHANGED <<mapCenter, layers, markers>>
         /\ \A outcome \in CollaboratorOutcomes :
              (CollaboratorAnswers(outcome) /\ ~outcome.ok) =>
                 /\ tool'.pc = "done"
                 /\ toolResult' = toolFailure(outcome.error)
         /\ \A outcome \in ResolveOutcomes :
              (CenterResolves(outcome) /\ ~outcome.ok) =>
                 /\ tool'.pc = "done"
                 /\ toolResult' = toolFailure(outcome.error)
                 /\ tool'.directoryQueries = 0
         /\ \A data \in ToolsDirectoryResponses :
              (DirectoryResponds(data)
                 /\ data.status \notin {"OK", "ZERO_RESULTS"}) =>
                 /\ tool'.pc = "done"
                 /\ ~toolResult'.success
                 /\ toolResult'.error \in
                      {"nearbySearchStatus", "nearbyCameraStatus"}
                 /\ tool'.directoryQueries = tool.directoryQueries
       ]_vars

\* C15: No silent location fallback. When nearbySearch is given a
\* current-location phrase and the device position cannot be had, the call
\* is over with success false and the position error: it has taken no
\* center, neither the map's nor any other, and sent no directory request.
C15_NoSilentFallback ==
  (tool.name = "nearbySearch" /\ tool.resolved = "failed"
     /\ isCurrentLocationInput(tool.args.location[1])) =>
    /\ tool.pc = "done"
    /\ toolResult = toolFailure("collaboratorError")
    /\ tool.center = NoCenter
    /\ tool.directoryQueries = 0

\* A cafe search around the current location failed on the device position
\* while the buffer of an earlier search was still on the map.
C15_Witness ==
  /\ nearbyDone /\ tool.resolved = "failed"
  /\ tool.args.location = Some("vi tri hien tai")
  /\ tool.args.keyword = Some("cafe")
  /\ ~toolResult.success
  /\ layers.nearbyBuffer # None

sentId(m) == IF m.role # "tool" \/ m.tool_call_id = None THEN ""
             ELSE m.tool_call_id[1]
sameUpstreamInput(a, b) ==
  /\ a.responseOnly = b.responseOnly
  /\ Len(a.messages) = Len(b.messages)
  /\ \A i \in 1..Len(a.messages) :
        /\ a.messages[i].role = b.messages[i].role
        /\ a.messages[i].content = b.messages[i].content
        /\ sentId(a.messages[i]) = sentId(b.messages[i])

liveEntry(k) ==
  \E i \in 1..Len(RESPONSE_CACHE) :
     RESPONSE_CACHE[i].key = k /\ RESPONSE_CACHE[i].expiresAt > now

\* C18: Upstream only through the cache. An upstream call for key k is
\* issued only from a state where the response cache holds no unexpired
\* entry for k and the inflight map no slot for k; a request that finds an
\* unexpired entry is answered from it, cached from memory, with no call
\* issued; a request turned away for a missing API key or a body without
\* messages leaves the cache, the inflight map and the calls as they were.
C18_UpstreamThroughCache ==
  [][ /\ Len(calls') > Len(calls) =>
           /\ ~liveEntry(calls'[Len(calls')].key)
           /\ INFLIGHT_REQUESTS[calls'[Len(calls')].key] = 0
      /\ \A r \in Requests, k \in RequestKeys :
           (HandleRequest(r, k) /\ liveEntry(k)) =>
              /\ calls' = calls
              /\ requests'[r].pc = "done"
              /\ requests'[r].resp.cached
              /\ requests'[r].resp.cacheSource = "memory"
              /\ \E i \in 1..Len(RESPONSE_CACHE) :
                    /\ RESPONSE_CACHE[i].key = k
                    /\ requests'[r].resp.payload = RESPONSE_CACHE[i].value
      /\ \A r \in Requests, reason \in RejectReasons :
           RejectRequest(r, reason) =>
              /\ UNCHANGED <<RESPONSE_CACHE, INFLIGHT_REQUESTS, calls>>
              /\ requests'[r].resp.status \in {400, 500}
    ]_vars

\* One request was turned away, one called the upstream and its answer was
\* stored, and a later one for the same key was answered from memory.
C18_Witness ==
  /\ Len(calls) = 1
  /\ \E r \in Requests : requests[r].resp.error = "noMessages"
  /\ \E r \in Requests : /\ requests[r].resp.cacheSource = "memory"
                         /\ requests[r].key = calls[1].key

\* ------------------------------------------- claims on eviction and pruning

\* Entry i of cache comes before entry j by age: created earlier, or at the
\* same instant and inserted earlier.
olderThan(cache, i, j) ==
  \/ cache[i].createdAt < cache[j].createdAt
  \/ (cache[i].createdAt = cache[j].createdAt /\ i < j)

\* What a store at time t found and left behind: the entries of found at
\* the indices in kept, in order, with the new entry set on top of them.
storedOver(found, kept, entry) == mapSet(keepIndices(found, kept, 1), entry)

unexpired(cache, t) == {i \in 1..Len(cache) : cache[i].expiresAt > t}

\* C20: Prune on store. Right after a setCachedResponse at time now (caching
\* on, TTL > 0) no entry of the cache has expiresAt <= now, whatever its
\* key; and the expiry pass removes no unexpired entry: unexpired entries go
\* missing only to make room, at most as many as exceeded the capacity.
C20_PruneOnStore ==
  [][ (lastCall'.op = "set" /\ now' = now /\ ~cachingOff) =>
        /\ \A i \in 1..Len(RESPONSE_CACHE') :
             RESPONSE_CACHE'[i].expiresAt > now
        /\ LET live == unexpired(RESPONSE_CACHE, now)
               missing == {i \in live :
                  indexOfKey(RESPONSE_CACHE', RESPONSE_CACHE[i].key) = 0}
               replaced == {i \in live :
                  RESPONSE_CACHE[i].key = lastStore'.key}
               excess == Max(0, Cardinality(live) - CACHE_MAX_ENTRIES)
           IN /\ Cardinality(missing) <= excess
              /\ \A i \in live \ (missing \cup replaced) :
                   RESPONSE_CACHE[i] \in
                     {RESPONSE_CACHE'[n] : n \in 1..Len(RESPONSE_CACHE')}
    ]_vars

\* The last store deleted an expired entry of a key other than the one it
\* stored, and left an unexpired entry of yet another key in the cache.
C20_Witness ==
  /\ lastCall.op = "set"
  /\ lastStore.at = now
  /\ \E i \in 1..Len(lastStore.expired) : lastStore.expired[i] # lastStore.key
  /\ \E j \in 1..Len(RESPONSE_CACHE) :
       /\ RESPONSE_CACHE[j].key # lastStore.key
       /\ RESPONSE_CACHE[j].expiresAt > now

\* ------------------------------------- claims on the nearby result's shape

\* The positions of the places of a list that lie at distance d.
positionsAt(places, d) ==
  LET at == SelectSeq(places, LAMBDA p : p.distanceMeters = d)
  IN [i \in 1..Len(at) |-> at[i].pos]

\* s can be read off t from left to right, skipping elements of t.
RECURSIVE isSubsequence(_, _)
isSubsequence(s, t) ==
  IF s = <<>> THEN TRUE
  ELSE IF t = <<>> THEN FALSE
  ELSE IF Head(s) = Head(t) THEN isSubsequence(Tail(s), Tail(t))
  ELSE isSubsequence(s, Tail(t))

\* C21: Distance ordering. The places a successful nearbySearch returns are
\* in non-decreasing order of distance from the center; places at the same
\* distance come in the order in which the directory returned them; and the
\* places a limit leaves are the nearest: the returned list is the head of
\* the filtered one, and nothing it leaves out is nearer than what it keeps.
C21_DistanceOrdering ==
  [][ \A data \in SortDirectoryResponses :
        (DirectoryResponds(data) /\ toolResult'.success) =>
          LET places == toolResult'.data[1].places
              all == tool'.filtered
              located == SelectSeq(data.results, LAMBDA item : item.finite)
              arrived == [i \in 1..Len(located) |->
                            [pos |-> located[i].pos,
                             distanceMeters |->
                               haversineDistanceMeters(tool.center.pos,
                                                       located[i].pos)]]
          IN /\ \A i, j \in 1..Len(all) :
                  i < j => all[i].distanceMeters <= all[j].distanceMeters
             /\ \A i \in 1..Len(all) :
                  isSubsequence(
                    positionsAt(all, all[i].distanceMeters),
                    positionsAt(arrived, all[i].distanceMeters))
             /\ places = SubSeq(all, 1, Len(places))
             /\ \A i \in 1..Len(places), j \in (Len(places) + 1)..Len(all) :
                  places[i].distanceMeters <= all[j].distanceMeters
    ]_vars

\* A search with a limit of one returned the nearest place and left out two
\* places that lie at one distance on opposite sides of the center, kept in
\* the filtered list in the order of arrival, east before west.
C21_Witness ==
  /\ nearbySucceeded
  /\ Len(returned.places) = 1
  /\ Len(tool.filtered) = 3
  /\ tool.filtered[2].distanceMeters = tool.filtered[3].distanceMeters
  /\ tool.filtered[2].pos = 50 /\ tool.filtered[3].pos = -50
  /\ returned.places[1].distanceMeters < tool.filtered[2].distanceMeters

\* C22: Count conservation. In every successful nearbySearch result
\* rawCount = filteredOutCount + ratingFilteredOutCount + totalFound, the
\* four counts are >= 0 and shown, the length of the returned list, is at
\* most totalFound; and when the directory returns n located candidates of
\* which k lie beyond the radius and no rating filter is set, rawCount = n,
\* filteredOutCount = k and n - k places are found (and returned, unless a
\* limit is set).
C22_CountConservation ==
  [][ \A data \in CountDirectoryResponses :
        (DirectoryResponds(data) /\ toolResult'.success) =>
          LET r == toolResult'.data[1]
              n == Len(data.results)
              beyond == {i \in 1..n :
                 haversineDistanceMeters(tool.center.pos, data.results[i].pos)
                   > r.radius}
          IN /\ r.rawCount =
                  r.filteredOutCount + r.ratingFilteredOutCount + r.totalFound
             /\ r.rawCount >= 0 /\ r.filteredOutCount >= 0
             /\ r.ratingFilteredOutCount >= 0 /\ r.totalFound >= 0
             /\ r.shown = Len(r.places) /\ r.shown <= r.totalFound
             /\ ((\A i \in 1..n : data.results[i].finite)
                   /\ r.minRating = None) =>
                  /\ r.rawCount = n
                  /\ r.filteredOutCount = Cardinality(beyond)
                  /\ r.totalFound = n - Cardinality(beyond)
                  /\ r.requestedLimit = None =>
                       Len(r.places) = n - Cardinality(beyond)
    ]_vars

\* Of three candidates one lay beyond the radius and one fell to the rating
\* filter; the third was found and returned.
C22_Witness ==
  /\ nearbySucceeded
  /\ returned.rawCount = 3
  /\ returned.filteredOutCount = 1
  /\ returned.ratingFilteredOutCount = 1
  /\ returned.totalFound = 1
  /\ Len(returned.places) = 1

\* What the radius rule allows for an input: an integer of the range; the
\* default for an input that is absent, not a number, NaN or infinite; for
\* a finite number an integer nearest to it, brought into the range.
radiusAsSpecified(input, radius) ==
  /\ radius \in MIN_NEARBY_RADIUS..MAX_NEARBY_RADIUS
  /\ input.kind # "number" => radius = DEFAULT_NEARBY_RADIUS
  /\ input.kind = "number" =>
       \E n \in (input.x \div 100 - 1)..(input.x \div 100 + 1) :
          /\ Abs(100 * n - input.x) <= 50
          /\ radius = (IF n < MIN_NEARBY_RADIUS THEN MIN_NEARBY_RADIUS
                       ELSE IF n > MAX_NEARBY_RADIUS THEN MAX_NEARBY_RADIUS
                       ELSE n)

\* C23: Radius normalization. For every input normalizeNearbyRadius returns
\* an integer in [100, 50000]: 1000 for an input that is absent, not a
\* number, NaN or infinite, otherwise the input rounded to the nearest
\* integer and clamped to the range (0 and negative radii give 100, radii
\* above 50000 give 50000); and the radius a successful nearbySearch reports
\* is that value for the radius it was called with.
C23_RadiusNormalization ==
  /\ \A input \in RequestedRadii :
       radiusAsSpecified(input, normalizeNearbyRadius(input))
  /\ normalizeNearbyRadius(Num(0)) = MIN_NEARBY_RADIUS
  /\ normalizeNearbyRadius(Num(-25000)) = MIN_NEARBY_RADIUS
  /\ normalizeNearbyRadius(Num(7000000)) = MAX_NEARBY_RADIUS
  /\ nearbySucceeded => radiusAsSpecified(tool.args.radius, returned.radius)

\* A search called with radius 499.6 reported 500 and found a place.
C23_Witness ==
  /\ nearbySucceeded
  /\ tool.args.radius = Num(49960)
  /\ returned.radius = 500
  /\ returned.totalFound = 1

\* ------------------------------------------------ claims on the geo helpers

decoding == decoder.pc \in {"while", "lat", "lng"}

\* C24: Polyline decoding terminates gracefully. For every input string,
\* one cut in the middle of a number or of a pair and one with characters
\* outside the alphabet included, the read index grows by one on every pass
\* of a loop and never gets more than two past the end of the input, the
\* coordinates number at most one per two characters read, and the call
\* returns.
C24_DecodeTerminates ==
  /\ [][ChunkRead => decoder'.index = decoder.index + 1]_vars
  /\ [](decoder.index <= Len(decoder.encoded) + 2)
  /\ [](2 * Len(decoder.coordinates) <= decoder.index)
  /\ (decoding ~> decoder.pc = "done")

\* The decoder returned one coordinate for an input that ends within the
\* first number of a pair, having read two places past its end.
C24_Witness ==
  /\ decoder.pc = "done"
  /\ decoder.encoded = <<95>>
  /\ decoder.index = Len(decoder.encoded) + 2
  /\ Len(decoder.coordinates) = 1

\* C25: Buffer polygon closure. For every center and radius the ring that
\* buildBufferCoordinates returns has BUFFER_SEGMENTS + 1 = 73 coordinate
\* pairs, and its first and last pair are identical.
C25_BufferClosure ==
  buffer.pc = "done" =>
    /\ Len(buffer.coordinates) = BUFFER_SEGMENTS + 1
    /\ buffer.coordinates[1] = buffer.coordinates[Len(buffer.coordinates)]

\* ------------------------------------ claims on waiters and provenance

\* The requests that awaited call c's promise without having issued it.
waitersOf(c) == {r \in Requests : requests[r].call = c /\ r # holderOf(c)}

\* C26: Waiters share the failure. When the inflight call for a key fails,
\* every request that awaited its promise answers 500 with that call's
\* error; a waiter issues no upstream call of its own, and its resumption
\* leaves the calls, the inflight map and the cache as they were. So N
\* overlapping same-key requests whose call fails make one call and N
\* error responses.
C26_WaitersShareFailure ==
  /\ [](\A c \in CallIds :
          /\ \A r \in waitersOf(c) :
               /\ \A d \in CallIds : holderOf(d) # r
               /\ (calls[c].state = "rejected" /\ requests[r].pc = "done") =>
                    /\ requests[r].resp.status = 500
                    /\ requests[r].resp.error = calls[c].error
          /\ (calls[c].state = "rejected"
                /\ \A r \in waitersOf(c) \cup {holderOf(c)} :
                      requests[r].pc = "done") =>
               /\ Cardinality({d \in CallIds :
                     holderOf(d) \in waitersOf(c) \cup {holderOf(c)}}) = 1
               /\ \A r \in waitersOf(c) \cup {holderOf(c)} :
                     requests[r].resp.status = 500)
  /\ [][WaiterResumes =>
          UNCHANGED <<calls, INFLIGHT_REQUESTS, RESPONSE_CACHE>>]_vars

\* Three overlapping requests for one key, one upstream call, which failed:
\* three responses with status 500, nothing cached, no slot left.
C26_Witness ==
  /\ Len(calls) = 1
  /\ calls[1].state = "rejected"
  /\ Cardinality(waitersOf(1)) = 2
  /\ \A r \in Requests : requests[r].pc = "done" /\ requests[r].resp.status = 500
  /\ RESPONSE_CACHE = <<>>
  /\ \A k \in Keys : INFLIGHT_REQUESTS[k] = 0

inProgress(r) == requests[r].pc \in {"awaitCompletion", "awaitInflight"}

\* C27: No inflight leak. Provided every upstream call settles in the end,
\* every inflight slot is removed in the end and every request that has
\* started to wait gets its response; and in every state where no request
\* is in progress the inflight map is empty.
C27_NoInflightLeak ==
  /\ \A k \in RequestKeys :
       (INFLIGHT_REQUESTS[k] # 0) ~> (INFLIGHT_REQUESTS[k] = 0)
  /\ \A r \in Requests : inProgress(r) ~> (requests[r].pc = "done")
  /\ []((\A r \in Requests : ~inProgress(r)) =>
          (\A k \in Keys : INFLIGHT_REQUESTS[k] = 0))

\* All requests have responded, one call having failed and a later one for
\* the same key succeeded, with a waiter on one of them; no slot is left.
C27_Witness ==
  /\ \A r \in Requests : requests[r].pc = "done"
  /\ \E c, d \in CallIds :
       /\ c < d /\ calls[c].key = calls[d].key
       /\ calls[c].state = "rejected" /\ calls[d].state = "fulfilled"
       /\ waitersOf(c) \cup waitersOf(d) # {}
  /\ \A k \in Keys : INFLIGHT_REQUESTS[k] = 0

succeeded(r) == requests[r].pc = "done" /\ requests[r].resp.status = 200

\* C28: Response provenance tags. A successful response has cached = false
\* exactly when its request issued the upstream call; cached = true with
\* cacheSource 'memory' exactly when it was answered from an unexpired cache
\* entry; cached = true with cacheSource 'inflight' exactly when it awaited
\* a call another request had issued. So of the requests answered by one
\* successful call exactly one has cached = false.
C28_ProvenanceTags ==
  /\ [](\A r \in Requests : succeeded(r) =>
          LET resp == requests[r].resp
              c == requests[r].call
          IN /\ (~resp.cached) <=> (c # 0 /\ holderOf(c) = r)
             /\ (resp.cached /\ resp.cacheSource = "memory") <=> (c = 0)
             /\ (resp.cached /\ resp.cacheSource = "inflight")
                  <=> (c # 0 /\ holderOf(c) # r)
             /\ resp.cached \/ resp.cacheSource = "none")
  /\ [](\A c \in CallIds :
          (calls[c].state = "fulfilled"
             /\ \A r \in waitersOf(c) \cup {holderOf(c)} : succeeded(r)) =>
            Cardinality({r \in waitersOf(c) \cup {holderOf(c)} :
                           ~requests[r].resp.cached}) = 1)
  /\ [][\A r \in Requests :
          (succeeded(r)' /\ ~succeeded(r) /\ requests'[r].call = 0) =>
            \E i \in 1..Len(RESPONSE_CACHE) :
               /\ RESPONSE_CACHE[i].key = requests'[r].key
               /\ RESPONSE_CACHE[i].expiresAt > now
               /\ RESPONSE_CACHE[i].value = requests'[r].resp.payload]_vars

\* One call succeeded and answered its holder with cached = false and a
\* waiter from the inflight promise; a third request for the key was
\* answered from memory.
C28_Witness ==
  /\ Len(calls) = 1 /\ calls[1].state = "fulfilled"
  /\ \E r \in waitersOf(1) :
       succeeded(r) /\ requests[r].resp.cacheSource = "inflight"
  /\ succeeded(holderOf(1)) /\ ~requests[holderOf(1)].resp.cached
  /\ \E r \in Requests :
       /\ succeeded(r) /\ requests[r].call = 0
       /\ requests[r].resp.cacheSource = "memory"
       /\ requests[r].key = calls[1].key

\* ------------------------------------------------ claims on the stores

nearbyStep ==
  /\ tool.pc \in {"idle", "resolving"}
  /\ tool'.name = "nearbySearch"
  /\ tool'.pc # tool.pc

\* C29: Early nearbySearch failures leave the map untouched. A nearbySearch
\* that fails because no search term was given, or because its center
\* could not be resolved (the text search or the device position failed),
\* leaves the layer store and the marker store as they were before the
\* call; the stores are cleared only in a step that has resolved the
\* center.
C29_EarlyFailureKeepsStores ==
  /\ [][(nearbyStep /\ tool'.pc = "done"
           /\ (toolResult'.error = "needSearchTerm"
                 \/ tool'.resolved = "failed")) =>
          (layers' = layers /\ markers' = markers)]_vars
  /\ [][(nearbyStep /\ tool'.pc = "resolving") =>
          (layers' = layers /\ markers' = markers)]_vars
  /\ [][(nearbyStep /\ (layers' # layers \/ markers' # markers)) =>
          /\ tool'.pc \in {"fetching", "done"}
          /\ tool'.resolved # "failed"
          /\ ~needsSearchTerm(tool'.args)
          /\ layers' = LAYER_INITIAL_STATE
          /\ markers' = MARKER_INITIAL_STATE]_vars

\* Over a drawn route, a nearbySearch around a named place has failed
\* because the text search for the place failed; the route is still there.
C29_Witness ==
  /\ tool.name = "nearbySearch" /\ tool.pc = "done"
  /\ ~toolResult.success
  /\ tool.resolved = "failed"
  /\ tool.args.location = Some("Cho Ben Thanh")
  /\ layers.directions # None
  /\ markers.directionsEnd # None

LayerNames == DOMAIN LAYER_INITIAL_STATE
MarkerNames == DOMAIN MARKER_INITIAL_STATE

\* The layers and the marker slots each tool writes when it draws.
drawnLayers(name, query) ==
  IF name = "searchPlace" /\ findMatchingProvince(query) THEN {"boundary"}
  ELSE IF name = "getDirections" THEN {"directions"}
  ELSE IF name = "nearbySearch" THEN {"nearbyBuffer"}
  ELSE {}

drawnMarkers(name, query) ==
  IF name = "searchPlace"
  THEN IF findMatchingProvince(query) THEN {"boundary", "openPopupId"}
       ELSE {"searchPlace", "openPopupId"}
  ELSE IF name = "getDirections" THEN {"directionsStart", "directionsEnd"}
  ELSE IF name = "getUserLocation" THEN {"userLocation"}
  ELSE IF name \in {"nearbySearch", "askHR"} THEN {"nearbyPlaces"}
  ELSE {}

\* The tool call has completed successfully and has drawn: askHR draws
\* only when its answer held coordinates, getMapCenter never.
drew ==
  /\ tool.pc = "done" /\ toolResult.success
  /\ \/ tool.name \in {"searchPlace", "getDirections", "getUserLocation",
                       "nearbySearch"}
     \/ tool.name = "askHR" /\ toolResult.data[1].shownOnMap

\* C30: One tool's visuals at a time. With tools executed one after
\* another through executeTool, in every reachable state at most one of the
\* layers directions, nearbyBuffer and boundary is set, and when a tool
\* that draws has completed successfully the layer store and the marker
\* store hold that tool's visuals and nothing else, whatever tools ran
\* before.
C30_OneToolsVisuals ==
  /\ Cardinality({l \in LayerNames : layers[l] # None}) <= 1
  /\ drew =>
       /\ \A l \in LayerNames \ drawnLayers(tool.name, tool.query) :
             layers[l] = LAYER_INITIAL_STATE[l]
       /\ \A l \in drawnLayers(tool.name, tool.query) : layers[l] # None
       /\ \A m \in MarkerNames \ drawnMarkers(tool.name, tool.query) :
             markers[m] = MARKER_INITIAL_STATE[m]

\* getDirections has drawn its route after a nearbySearch had drawn its
\* buffer: the buffer and the nearby markers are gone.
C30_Witness ==
  /\ previous.name = "nearbySearch" /\ previous.success
  /\ drew /\ tool.name = "getDirections"
  /\ layers.directions # None
  /\ layers.nearbyBuffer = None
  /\ markers.nearbyPlaces = <<>>
  /\ markers.directionsEnd # None

====
